---- MODULE Spec2Model ----
(***************************************************************************)
(* Agentic-Student-Support: the side-effect executor                       *)
(* (OrchestratorAgent.execute_confirmed_action), the daily usage limits    *)
(* (LimitsService), the ticket REST endpoint (app.create_ticket) and the   *)
(* chat turn (OrchestratorAgent.process_message) with its persisted state. *)
(***************************************************************************)
EXTENDS Integers, Sequences, FiniteSets, TLC

\* ------------------------------------------------------------------ bounds
MaxRequests == 2     \* requests started in one run
MaxDate == 2         \* civil dates (Asia/Kolkata) the clock passes through
MaxTurns == 3        \* chat turns of the session in one run
MaxConfirms == 1     \* confirmations posted for the chat session in one run
MaxGateTurns == 2    \* chat turns in a run under every classifier answer
MaxClock == 45       \* minutes the clock of the flow-pause store runs
MaxStored == 2       \* messages saved to the chat memory in one run
MaxLimit == 2        \* the largest limit a session history is read with
MaxNow == 80         \* seconds the clock of the deduplication cache runs
MaxIncrements == 3   \* increment_usage calls made in one run
MaxTickets == 2      \* tickets created in one run
MaxReplies == 4      \* turns of a session that answers a pending question

\* ------------------------------------------------------- program constants
EMAIL_DAILY_MAX == 5
TICKET_DAILY_MAX == 3

\* --------------------------------------------------------------- universes
Workers == {"w1", "w2"}   \* request threads of the threaded Flask server
Dates == 1..MaxDate
Users == {"u1", "u2"}
Kinds == {"email", "ticket"}

\* A text is kept as its first 50 characters (head) and the rest (tail).
Text(h, t) == [head |-> h, tail |-> t]
EmptyText == Text("", "")

\* The sensitive keywords a piece of (lower-cased) text contains.
sensitive_keywords == {"harassment", "ragging", "bullying", "threat", "sexual"}

KeywordsIn(piece) ==
    CASE piece = "harassment by a classmate" -> {"harassment"}
      [] piece = "Ragging"                   -> {"ragging"}
      [] piece = "he threatened me"          -> {"threat"}
      [] OTHER                               -> {}

\* str[:50]
First50(text) == text.head

\* ------------------------------------------------------- str and re
UPPER == "ABCDEFGHIJKLMNOPQRSTUVWXYZ"
LOWER == "abcdefghijklmnopqrstuvwxyz"
DIGITS == "0123456789"

CharAt(s, i) == SubSeq(s, i, i)
CharsOf(s) == { CharAt(s, i) : i \in 1..Len(s) }

\* str.lower()
RECURSIVE lower(_)
lower(s) ==
    IF Len(s) = 0 THEN ""
    ELSE LET c == CharAt(s, 1)
             up == { i \in 1..Len(UPPER) : CharAt(UPPER, i) = c }
         IN (IF up = {} THEN c ELSE CharAt(LOWER, CHOOSE i \in up : TRUE))
              \o lower(SubSeq(s, 2, Len(s)))

\* str.strip(), for blanks
RECURSIVE strip(_)
strip(s) ==
    IF Len(s) > 0 /\ CharAt(s, 1) = " " THEN strip(SubSeq(s, 2, Len(s)))
    ELSE IF Len(s) > 0 /\ CharAt(s, Len(s)) = " " THEN strip(SubSeq(s, 1, Len(s) - 1))
    ELSE s

\* The positions where kw occurs in s; any(kw in s for kw in kws).
Find(s, kw) == { i \in 1..(Len(s) - Len(kw) + 1) : SubSeq(s, i, i + Len(kw) - 1) = kw }
any_in(kws, s) == \E kw \in kws : Find(s, kw) # {}

Min(S) == CHOOSE m \in S : \A n \in S : m <= n
Max(S) == CHOOSE m \in S : \A n \in S : m >= n

\* The end of the longest run of characters of cls that starts at i (i - 1
\* when there is none).
RunEnd(s, i, cls) ==
    Max({ e \in (i - 1)..Len(s) : \A k \in i..e : CharAt(s, k) \in cls })

Letters == CharsOf(UPPER) \cup CharsOf(LOWER)

\* re.search(r'[a-zA-Z0-9._%+-]+@[a-zA-Z0-9.-]+\.[a-zA-Z]{2,}', s): the
\* leftmost match, every quantifier greedy; "" when nothing matches.
email_search(s) ==
    LET LocalChars == Letters \cup CharsOf(DIGITS) \cup CharsOf("._%+-")
        DomainChars == Letters \cup CharsOf(DIGITS) \cup CharsOf(".-")
        Ends(i) ==
            LET at == RunEnd(s, i, LocalChars) + 1 IN
            IF at > i /\ at <= Len(s) /\ CharAt(s, at) = "@"
            THEN { RunEnd(s, j + 1, Letters) :
                     j \in { j \in (at + 2)..RunEnd(s, at + 1, DomainChars) :
                               CharAt(s, j) = "." /\ RunEnd(s, j + 1, Letters) >= j + 2 } }
            ELSE {}
        starts == { i \in 1..Len(s) : Ends(i) # {} }
    IN IF starts = {} THEN ""
       ELSE SubSeq(s, Min(starts), Max(Ends(Min(starts))))

\* The purpose a message states after "about" or "regarding":
\* re.search(r"(?:about|regarding)\s+(.+?)(?:$|\.)", s, re.IGNORECASE), the
\* group stripped and kept when longer than 10 characters, else "". (The two
\* other purpose patterns need a verb ask/tell/request/remind, or apply when
\* this one finds nothing.)
purpose_search(s) ==
    LET words == {"about", "regarding"}
        GroupStart(i, w) == RunEnd(s, i + Len(w), {" "}) + 1
        hits == { i \in 1..Len(s) : \E w \in words :
                    /\ i \in Find(lower(s), w)
                    /\ GroupStart(i, w) > i + Len(w) /\ GroupStart(i, w) <= Len(s) }
    IN IF hits = {} THEN ""
       ELSE LET i == Min(hits)
                g == GroupStart(i, CHOOSE w \in words : i \in Find(lower(s), w))
                dots == { k \in (g + 1)..Len(s) : CharAt(s, k) = "." }
                text == strip(SubSeq(s, g, IF dots = {} THEN Len(s) ELSE Min(dots) - 1))
            IN IF Len(text) > 10 THEN text ELSE ""

\* Action payloads a client can post to /api/chat/confirm-action. A key the
\* client leaves out reads as its .get() default: "" or the empty text.
EmailPayload(a, to, subj, body) ==
    [action |-> a, to |-> to, subject |-> subj, body |-> body,
     description |-> EmptyText, category |-> ""]

TicketPayload(desc, cat) ==
    [action |-> "ticket_preview", to |-> "", subject |-> EmptyText, body |-> "",
     description |-> desc, category |-> cat]

EmailPayloads ==
    { EmailPayload("email_preview", "friend@gmail.com", Text("Seminar", ""), "B1"),
      EmailPayload("email_preview", "friend@gmail.com", Text("Seminar", " tomorrow"), "B1"),
      EmailPayload("send_email", "prof@college.edu", Text("Seminar", ""), "B1") }

TicketPayloads ==
    { TicketPayload(Text("wifi is down", ""), "IT Support"),
      TicketPayload(Text("harassment by a classmate", ""), "Other"),
      TicketPayload(Text("please help", ""), "Ragging") }

UnknownPayload ==
    [action |-> "", to |-> "", subject |-> EmptyText, body |-> "",
     description |-> EmptyText, category |-> ""]

Payloads == EmailPayloads \cup TicketPayloads \cup {UnknownPayload}

\* The requests of a run: every payload from one student, and one payload
\* also from a second student.
Requests ==
    { [user |-> "u1", data |-> d] : d \in Payloads } \cup
    { [user |-> "u2", data |-> d] :
        d \in {EmailPayload("email_preview", "friend@gmail.com", Text("Seminar", ""), "B1")} }

TicketRequests == { r \in Requests : r.data \in TicketPayloads }

\* ---------------------------------------------------------------- state
VARIABLES
    today,              \* civil date of the Asia/Kolkata clock
    daily_usage,        \* table daily_usage: user -> date -> kind -> count
    executed_actions,   \* OrchestratorAgent._executed_actions
    thread,             \* each request thread: where it stands, and its locals
    started,            \* requests started so far
    last,               \* the request answered last, with its answer
    effects,            \* fingerprint -> side effects the collaborator performed
    succ,               \* user -> date -> kind -> side effects reported successful
    backend,            \* the chat-memory backend the process was started with
    history,            \* metadata of the bot messages saved for the session, in order
    shown,              \* the email draft last returned to the user as a preview
    turn,               \* the latest chat turn of the session
    paused_flows,       \* FlowPauseManager.paused_flows: session -> flow name -> blob
    session_activity,   \* FlowPauseManager.session_activity: session -> last activity
    clock,              \* time.time(), in minutes
    caller,             \* the state dict the caller of pause_flow holds
    given,              \* (session, flow name) -> what the latest pause was given, and when
    pause_ret,          \* the flow-pause operation made last, with what it returned
    chat_messages,      \* the messages the chat-memory backend holds, in insertion order
    mem_ret,            \* the chat-memory call made last, with what it returned
    dedup_cache,        \* DeduplicationService.cache: request hash -> (response, expiry)
    dedup_lock,         \* DeduplicationService.lock: the thread that holds it, or Free
    dedup_thread,       \* thread -> its position in a deduplication call, and its locals
    dedup_now,          \* time.time(), in seconds
    dedup_given,        \* user -> the response cached last for the user, and when
    db_writer,          \* the connection that holds the write lock of students.db
    incr_thread,        \* thread -> its position in increment_usage, and its locals
    incr_ok,            \* user -> kind -> increment_usage calls returned without error
    agent_ret,          \* the safe_agent_call made last: what the agent did, and the result
    classified,         \* the _llm_classify_intent call made last: the LLM output, and the result
    tickets,            \* table tickets of the ticket database, in insertion order
    tk_thread,          \* thread -> its position in a ticket-database call, and its locals
    tk_ret              \* the ticket call that returned last, with its result

pause_vars == <<paused_flows, session_activity, clock, caller, given, pause_ret>>

memory_vars == <<chat_messages, mem_ret>>
dedup_vars == <<dedup_cache, dedup_lock, dedup_thread, dedup_now, dedup_given>>
incr_vars == <<db_writer, incr_thread, incr_ok>>
protocol_vars == <<agent_ret, classified>>
ticket_vars == <<tickets, tk_thread, tk_ret>>

vars == <<today, daily_usage, executed_actions, thread, started, last, effects, succ,
          backend, history, shown, turn, pause_vars, memory_vars, dedup_vars, incr_vars, protocol_vars, ticket_vars>>

NoRow == [d \in Dates |-> 0]

\* A free thread. Its locals: the request (endpoint, user, session, payload),
\* the collaborator calls made for it, the requester's counter row when it
\* started, the storage faults it met ("read", "write"), and, where a run
\* observes it, the civil date its quota check read (0 otherwise).
Idle ==
    [pc |-> "idle", via |-> "none", user |-> "", session |-> "",
     data |-> UnknownPayload, calls |-> 0, before |-> NoRow, faults |-> {},
     admitted |-> 0]

\* ------------------------------------------------- limits_service.py
\* _today_kolkata(): the date is read from the clock at every call.
today_kolkata == today

MaxAllowed(kind) == IF kind = "email" THEN EMAIL_DAILY_MAX ELSE TICKET_DAILY_MAX

\* A limit check that still admits a user who stands at the maximum.
check_daily_limit_inclusive(user, kind, read_ok) ==
    IF read_ok
    THEN daily_usage[user][today_kolkata][kind] <= MaxAllowed(kind)
    ELSE TRUE

\* A limit check that refuses the action when the read fails.
check_daily_limit_closed(user, kind, read_ok) ==
    read_ok /\ daily_usage[user][today_kolkata][kind] < MaxAllowed(kind)

\* check_daily_limit: allowed iff used < max; a failed read fails open.
check_daily_limit(user, kind, read_ok) ==
    IF read_ok
    THEN daily_usage[user][today_kolkata][kind] < MaxAllowed(kind)
    ELSE TRUE

\* An upsert that counts the action in the column of the other kind.
increment_usage_other_column(user, kind) ==
    [daily_usage EXCEPT ![user][today_kolkata][CHOOSE k \in Kinds : k # kind] = @ + 1]

\* An upsert that is rolled back without raising.
increment_usage_lost(user, kind) == daily_usage

\* increment_usage: the upsert, one transaction (BEGIN IMMEDIATE), on the
\* row of the date read inside the call.
increment_usage(user, kind) ==
    [daily_usage EXCEPT ![user][today_kolkata][kind] = @ + 1]

\* ------------------------------------------ orchestrator_agent.py, executor
\* _action_hash: md5 over the joined parts, kept as the tuple of the parts.
action_hash(user, data) ==
    <<user, data.action, data.to, First50(data.subject), First50(data.description)>>

Hashes == { action_hash(u, d) : u \in Users, d \in Payloads }

KindOf(data) == IF data.action \in {"send_email", "email_preview"} THEN "email" ELSE "ticket"

\* The thread goes on with its next statement.
Goto(p, t) ==
    /\ thread' = [thread EXCEPT ![p] = t]
    /\ UNCHANGED <<last, backend, history, shown, turn, pause_vars, memory_vars, dedup_vars, incr_vars, protocol_vars, ticket_vars>>

\* The handler returns: the thread is free again and its answer is the
\* latest one. confirm_chat_action saves a bot message that carries the
\* executed action when the executor reported success.
Return(p, t, answer) ==
    /\ thread' = [thread EXCEPT ![p] = Idle]
    /\ last' = [via |-> t.via, user |-> t.user, session |-> t.session, data |-> t.data,
                calls |-> t.calls, faults |-> t.faults, answer |-> answer]
    /\ history' = IF t.via = "executor" /\ answer = "success"
                  THEN Append(history, [action_executed |-> t.data])
                  ELSE history
    /\ UNCHANGED <<backend, shown, turn, pause_vars, memory_vars, dedup_vars, incr_vars, protocol_vars, ticket_vars>>

\* A request arrives and the first free thread serves it.
Begin(p) ==
    /\ thread[p].pc = "idle"
    /\ p = "w2" => thread["w1"].pc # "idle"
    /\ started < MaxRequests
    /\ started' = started + 1

Locals(via, u, s, data) ==
    [pc |-> "idle", via |-> via, user |-> u, session |-> s, data |-> data, calls |-> 0,
     before |-> [d \in Dates |-> daily_usage[u][d][KindOf(data)]], faults |-> {},
     admitted |-> 0]

\* POST /api/chat/confirm-action with confirmed = true, up to guard 1 of
\* execute_confirmed_action (the membership test on _executed_actions).
ExecStart(p, u, s, data) ==
    /\ Begin(p)
    /\ LET t == Locals("executor", u, s, data) IN
       IF action_hash(u, data) \in executed_actions
       THEN Return(p, t, "already_executed")
       ELSE IF data.action \in {"send_email", "email_preview", "ticket_preview"}
            THEN Goto(p, [t EXCEPT !.pc = "quota"])
            ELSE Return(p, t, "unknown_action")
    /\ UNCHANGED <<today, daily_usage, executed_actions, effects, succ>>

\* Guard 2: the rate limit check before execution, for emails and for every
\* ticket. With observe, the date that check_daily_limit read is remembered.
ExecQuotaAt(p, observe) ==
    /\ thread[p].pc = "quota"
    /\ \E read_ok \in BOOLEAN :
         LET t == [thread[p] EXCEPT !.faults = IF read_ok THEN @ ELSE @ \cup {"read"},
                                    !.admitted = IF observe THEN today_kolkata ELSE @] IN
         IF check_daily_limit(t.user, KindOf(t.data), read_ok)
         THEN Goto(p, [t EXCEPT !.pc = "call"])
         ELSE Return(p, t, "limit_reached")
    /\ UNCHANGED <<today, daily_usage, executed_actions, started, effects, succ>>

ExecQuota(p) == ExecQuotaAt(p, FALSE)

\* A fingerprint recorded whatever the collaborator reports.
executed_after_any_result(executed, action_id, success) == executed \cup {action_id}

\* `if result.get("success"): self._executed_actions.add(action_id)`; a
\* collaborator that raises leaves the set as it is, too.
executed_after(executed, action_id, success) ==
    IF success THEN executed \cup {action_id} ELSE executed

\* An executor that lets the exception of increment_usage reach its outer
\* except clause.
answer_after_increment_raising(write_ok) == IF write_ok THEN "success" ELSE "failed"

\* try: increment_usage(...) except Exception: print(...), and the success
\* envelope that follows either way.
answer_after_increment(write_ok) == "success"

\* email_agent.send_email / ticket_agent.create_ticket: the collaborator
\* performs the side effect and reports success, or fails. On success the
\* fingerprint is added to _executed_actions before anything else is done.
ExecCall(p) ==
    /\ thread[p].pc = "call"
    /\ LET t == [thread[p] EXCEPT !.calls = @ + 1] IN
       \E ok \in BOOLEAN :
         /\ executed_actions' = executed_after(executed_actions,
                                               action_hash(t.user, t.data), ok)
         /\ IF ok
            THEN /\ effects' = [effects EXCEPT ![action_hash(t.user, t.data)] = @ + 1]
                 /\ succ' = [succ EXCEPT ![t.user][today][KindOf(t.data)] = @ + 1]
                 /\ Goto(p, [t EXCEPT !.pc = "incr"])
            ELSE /\ Return(p, t, "failed")
                 /\ UNCHANGED <<effects, succ>>
    /\ UNCHANGED <<today, daily_usage, started>>

\* increment_usage inside try/except: a failure is printed and swallowed; the
\* success envelope is returned either way.
ExecIncr(p) ==
    /\ thread[p].pc = "incr"
    /\ LET t == thread[p] IN
       \E write_ok \in BOOLEAN :
         IF write_ok
         THEN /\ daily_usage' = increment_usage(t.user, KindOf(t.data))
              /\ Return(p, t, answer_after_increment(write_ok))
         ELSE /\ UNCHANGED daily_usage
              /\ Return(p, [t EXCEPT !.faults = @ \cup {"write"}],
                        answer_after_increment(write_ok))
    /\ UNCHANGED <<today, executed_actions, started, effects, succ>>

\* Civil midnight passes.
Tick ==
    /\ today < MaxDate
    /\ today' = today + 1
    /\ UNCHANGED <<daily_usage, executed_actions, thread, started, last, effects, succ,
                   backend, history, shown, turn, pause_vars, memory_vars, dedup_vars, incr_vars, protocol_vars, ticket_vars>>

\* ----------------------------------------- app.py, POST /api/tickets/create
\* is_sensitive: a keyword occurs in category.lower() or description.lower().
is_sensitive(data) ==
    (KeywordsIn(data.category) \cup KeywordsIn(data.description.head)
       \cup KeywordsIn(data.description.tail)) \cap sensitive_keywords # {}

\* The daily limit check, skipped for sensitive complaints.
ApiTicketStart(p, u, data) ==
    /\ Begin(p)
    /\ LET t == Locals("api", u, "", data) IN
       IF ~is_sensitive(data) /\ u # ""
       THEN \E read_ok \in BOOLEAN :
              IF check_daily_limit(u, "ticket", read_ok)
              THEN Goto(p, [t EXCEPT !.pc = "api_call",
                                     !.faults = IF read_ok THEN @ ELSE @ \cup {"read"}])
              ELSE Return(p, t, "limit_reached")
       ELSE Goto(p, [t EXCEPT !.pc = "api_call"])
    /\ UNCHANGED <<today, daily_usage, executed_actions, effects, succ>>

\* ticket_agent.create_ticket(data); a failure is answered with status 400.
ApiTicketCall(p) ==
    /\ thread[p].pc = "api_call"
    /\ LET t == [thread[p] EXCEPT !.calls = @ + 1] IN
       \E ok \in BOOLEAN :
         IF ok
         THEN /\ succ' = [succ EXCEPT ![t.user][today]["ticket"] = @ + 1]
              /\ Goto(p, [t EXCEPT !.pc = "api_incr"])
         ELSE /\ Return(p, t, "failed")
              /\ UNCHANGED succ
    /\ UNCHANGED <<today, daily_usage, executed_actions, started, effects>>

\* The usage counter is incremented for every created ticket of a known
\* student; an exception of increment_usage reaches the outer handler (500).
ApiTicketIncr(p) ==
    /\ thread[p].pc = "api_incr"
    /\ LET t == thread[p] IN
       IF t.user # ""
       THEN \E write_ok \in BOOLEAN :
              IF write_ok
              THEN /\ daily_usage' = increment_usage(t.user, "ticket")
                   /\ Return(p, t, "success")
              ELSE /\ UNCHANGED daily_usage
                   /\ Return(p, [t EXCEPT !.faults = @ \cup {"write"}], "error")
       ELSE UNCHANGED daily_usage /\ Return(p, t, "success")
    /\ UNCHANGED <<today, executed_actions, started, effects, succ>>

\* ------------------------------------------------------- chat_memory.py
\* CHAT_MEMORY_BACKEND: ChromaDB (the default), Upstash Redis, or SQLite
\* (PostgreSQL reads in the same order as SQLite).
Backends == {"chromadb", "upstash", "sqlite"}

\* Python values: None of a string-valued key, the empty dict, a missing draft.
None == "None"
EmptyDict == [k \in {} |-> ""]
NoDraft == [to |-> "", subject |-> EmptyText, body |-> ""]
\* clarification_context = {}: no original message, and retry_count read
\* with its default.
NoContext == [original_message |-> "", retry_count |-> 0]

\* The metadata keys whose values are dicts; the others hold a str or None.
DictKeys == {"active_slots", "conversation_state", "action_executed"}

\* json.dumps(value): a str, not a dict.
json_dumps(v) == [json |-> v]
is_str(v) == DOMAIN v = {"json"}

\* ChromaDBChatMemory.save_message keeps the str values of the metadata,
\* stores dicts JSON-encoded and drops None; get_session_history decodes only
\* extracted_slots, faculty_matches and resolved_faculty.
chroma_meta(m) ==
    [k \in { k \in DOMAIN m : k \in DictKeys \/ m[k] # None } |->
        IF k \in DictKeys /\ k \notin {"extracted_slots", "faculty_matches", "resolved_faculty"}
        THEN json_dumps(m[k]) ELSE m[k]]

reversed(seq) == [i \in 1..Len(seq) |-> seq[Len(seq) + 1 - i]]

\* get_session_history(session_id, user_id, limit) of each backend: ChromaDB
\* sorts by timestamp and returns messages[-limit:], Upstash returns
\* lrange(-limit, -1), SQLite returns ORDER BY timestamp DESC LIMIT limit.
get_session_history(limit) ==
    LET n == Len(history)
        newest == SubSeq(history, IF n > limit THEN n - limit + 1 ELSE 1, n)
    IN CASE backend = "chromadb" -> [i \in 1..Len(newest) |-> chroma_meta(newest[i])]
         [] backend = "upstash"  -> newest
         [] backend = "sqlite"   -> reversed(newest)

\* -------------------------- orchestrator_agent.py, process_message: loader
HISTORY_LIMIT == 50

get(m, k) == IF k \in DOMAIN m THEN m[k] ELSE None

\* The flow state before any message of the history is merged.
NoFlow ==
    [active_flow |-> None, extracted_slots |-> EmptyDict, contact_faculty_step |-> None,
     expected_response_type |-> None, email_draft |-> NoDraft,
     clarification_context |-> NoContext,
     conversation_state |-> EmptyDict, email_flow_was_cleared |-> FALSE]

\* One pass of the loop body over the metadata of a bot message: every field
\* still unset takes the value the metadata holds under the key the loader
\* reads.
merge(acc, m) ==
    LET cleared == \/ acc.email_flow_was_cleared
                   \/ /\ "active_flow" \in DOMAIN m /\ m.active_flow = None
                      /\ acc.active_flow = None
    IN [active_flow |->
            IF get(m, "active_flow") # None /\ acc.active_flow = None
            THEN m.active_flow ELSE acc.active_flow,
        extracted_slots |->
            IF "extracted_slots" \in DOMAIN m /\ DOMAIN m.extracted_slots # {} /\ ~cleared
            THEN [k \in DOMAIN m.extracted_slots \cup DOMAIN acc.extracted_slots |->
                    IF k \in DOMAIN acc.extracted_slots THEN acc.extracted_slots[k]
                    ELSE m.extracted_slots[k]]
            ELSE acc.extracted_slots,
        contact_faculty_step |->
            IF get(m, "contact_faculty_step") # None /\ acc.contact_faculty_step = None
            THEN m.contact_faculty_step ELSE acc.contact_faculty_step,
        expected_response_type |->
            IF get(m, "expected_response_type") # None /\ acc.expected_response_type = None
            THEN m.expected_response_type ELSE acc.expected_response_type,
        email_draft |->
            IF "email_draft" \in DOMAIN m /\ ~cleared /\ acc.email_draft = NoDraft
            THEN m.email_draft ELSE acc.email_draft,
        clarification_context |->
            IF "clarification_context" \in DOMAIN m /\ acc.clarification_context = NoContext
            THEN m.clarification_context ELSE acc.clarification_context,
        conversation_state |->
            IF "conversation_state" \in DOMAIN m /\ DOMAIN acc.conversation_state = {}
            THEN m.conversation_state ELSE acc.conversation_state,
        email_flow_was_cleared |-> cleared]

\* for msg in reversed(session_history): merge the metadata of bot messages.
RECURSIVE merge_all(_, _)
merge_all(acc, msgs) ==
    IF Len(msgs) = 0 THEN acc ELSE merge_all(merge(acc, Head(msgs)), Tail(msgs))

load_flow_state == merge_all(NoFlow, reversed(get_session_history(HISTORY_LIMIT)))

\* -------------------- process_message: corrections before the graph runs
CANCEL_KEYWORDS == {"cancel", "stop", "abort", "forget it", "never mind", "quit", "exit"}

FAQ_RESET_INDICATORS ==
    {"course", "courses", "college", "department", "fee", "policy", "rules", "timing",
     "placement", "hostel", "library", "founder", "what is", "what are", "how many",
     "list", "is there", "are there", "tell me", "capacity"}

EMAIL_FLOW_KEYWORDS ==
    {"send", "email", "mail", "yes", "no", "confirm", "cancel", "edit", "subject", "body",
     "@gmail", "@yahoo", "@outlook", "@"}

NEW_EMAIL_INTENT_KEYWORDS ==
    {"send email", "send an email", "send a email", "send mail", "write email",
     "write an email", "write a mail", "compose email", "draft email", "email to",
     "send email to", "send an email to", "write email to", "email prof", "email dr",
     "email faculty", "email professor", "i want to send email", "i want to email"}

EMAIL_CONTINUATION_KEYWORDS ==
    {"yes", "no", "confirm", "cancel", "edit", "change", "okay", "ok", "subject", "body",
     "that's correct", "looks good", "send it"}

\* What the student types in the session.
Messages ==
    {"Send an email to friend@gmail.com about the seminar tomorrow", "send an email",
     "send", "cancel", "hello", "what is the hostel fee"}

\* What the code computes from the text of a message alone, for each message
\* once: msg_lower and the keyword tests of process_message and of node 1,
\* the address and the purpose the email flow extracts.
\* Further messages, for the runs under every classifier answer.
AllMessages == Messages \cup {"what can you do", "who is the principal"}

\* capability_patterns of node 1, each alternation written out.
capability_patterns ==
    {"can you send", "can you email", "can you contact", "can you raise", "can you create",
     "can you help", "do you send", "do you email", "do you contact", "do you raise",
     "do you create", "are you able", "are you capable", "what can you do",
     "how do i send", "how do i contact", "how do i raise"}

\* Replies typed while a flow is active: the cancel words, alone, in other
\* case, inside a sentence, and words that are no cancel keyword of node 1.
CancelMessages ==
    {"send an email", "cancel", " Cancel ", "please cancel", "nevermind", "exit",
     "hello", "i will never stop learning"}

\* A sensitive complaint, and replies to the question it is answered with.
FollowupMessages == {"i am being harassed by a senior", "maybe", "not sure", "yes", "no"}

about ==
    [m \in AllMessages \cup CancelMessages \cup FollowupMessages |->
        LET msg_lower == strip(lower(m)) IN
        [msg_lower |-> msg_lower,
         is_faq_query |-> any_in(FAQ_RESET_INDICATORS, msg_lower),
         is_email_related |-> any_in(EMAIL_FLOW_KEYWORDS, msg_lower),
         is_new_email_intent |-> any_in(NEW_EMAIL_INTENT_KEYWORDS, msg_lower),
         is_email_continuation |->
             any_in(EMAIL_CONTINUATION_KEYWORDS, msg_lower) /\ Len(msg_lower) < 50,
         is_cancel |-> any_in(CANCEL_KEYWORDS, msg_lower) /\ Len(msg_lower) < 20,
         is_short_input |->
             \/ Len(msg_lower) < 5
             \/ /\ Len(msg_lower) < 10
                /\ CharsOf(msg_lower) \subseteq CharsOf(DIGITS) \cup {"."}
                /\ CharsOf(msg_lower) \cap CharsOf(DIGITS) # {},
         is_capability_question |->
             /\ any_in(capability_patterns, msg_lower)
             /\ \/ ~any_in({" to @", ".com", ".in", " to dr", " to prof"}, msg_lower)
                \/ any_in({"to faculty", "to professor", "to teacher", "emails?",
                           "tickets?"}, msg_lower),
         extracted_email |-> lower(email_search(m)),
         purpose |-> purpose_search(m)]]

response_type_to_slot(t) ==
    CASE t = "email_type_selection" -> "email_type"
      [] t = "faculty_selection"    -> "resolved_faculty"
      [] t = "email_purpose"        -> "purpose"
      [] t = "email_confirmation"   -> "email_action"
      [] t = "category_selection"   -> "category"
      [] t \in {"ticket_confirmation", "sensitive_confirmation"} -> "confirmed"
      [] OTHER                      -> t

\* A reset of the active flow alone.
_reset_active_flow(st) == [st EXCEPT !.active_flow = None]

_reset_flow_state(st) ==
    [st EXCEPT !.active_flow = None, !.contact_faculty_step = None, !.email_draft = NoDraft,
               !.extracted_slots = EmptyDict, !.expected_response_type = None,
               !.clarification_context = NoContext]

\* The corrections of the loaded state without the FAQ reset.
pre_graph_without_faq_reset(fl, user_message) ==
    LET s1 == IF /\ fl.expected_response_type # None
                 /\ response_type_to_slot(fl.expected_response_type) \in DOMAIN fl.extracted_slots
              THEN [fl EXCEPT !.expected_response_type = None] ELSE fl
    IN IF /\ about[user_message].is_new_email_intent
          /\ ~about[user_message].is_email_continuation
          /\ \/ s1.email_draft # NoDraft
             \/ s1.active_flow \in {"contact_faculty", "email"}
             \/ DOMAIN s1.extracted_slots # {}
       THEN IF s1.active_flow \in {"contact_faculty", "email"}
            THEN [_reset_flow_state(s1) EXCEPT
                     !.clarification_context = s1.clarification_context]
            ELSE [s1 EXCEPT !.email_draft = NoDraft]
       ELSE s1

\* The three corrections of the loaded state: a stale expected response type,
\* a question that looks like an FAQ, a message that starts a new email.
pre_graph(fl, user_message) ==
    LET s1 == IF /\ fl.expected_response_type # None
                 /\ response_type_to_slot(fl.expected_response_type) \in DOMAIN fl.extracted_slots
              THEN [fl EXCEPT !.expected_response_type = None] ELSE fl
        s2 == IF /\ about[user_message].is_faq_query /\ ~about[user_message].is_email_related
                 /\ (s1.email_draft # NoDraft \/ s1.active_flow # None)
              THEN _reset_flow_state(s1) ELSE s1
    IN IF /\ about[user_message].is_new_email_intent
          /\ ~about[user_message].is_email_continuation
          /\ \/ s2.email_draft # NoDraft
             \/ s2.active_flow \in {"contact_faculty", "email"}
             \/ DOMAIN s2.extracted_slots # {}
       THEN IF s2.active_flow \in {"contact_faculty", "email"}
            THEN [_reset_flow_state(s2) EXCEPT
                     !.clarification_context = s2.clarification_context]
            ELSE [s2 EXCEPT !.email_draft = NoDraft]
       ELSE s2

\* initial_state: the flow state the graph is invoked with, nothing
\* classified yet, nothing answered, no email sent. followup records what
\* _handle_followup_response made of the reply, where it ran.
initial_state(fl) ==
    [active_flow |-> fl.active_flow, extracted_slots |-> fl.extracted_slots,
     contact_faculty_step |-> fl.contact_faculty_step,
     expected_response_type |-> fl.expected_response_type, email_draft |-> fl.email_draft,
     clarification_context |-> fl.clarification_context,
     intent |-> "", confidence |-> 0, is_multi_intent |-> FALSE,
     requires_clarification |-> FALSE, confirmation_pending |-> FALSE, followup |-> "none",
     final_response |-> None, sent |-> NoDraft, node |-> "classify_intent",
     selected_agent |-> ""]

\* ------------------------------------------ process_message: the graph
\* Confidences are held in hundredths.
CONFIDENCE_THRESHOLD == 70

_is_intent_compatible(new_intent, active_flow) ==
    CASE active_flow = None -> TRUE
      [] active_flow \in {"email", "contact_faculty"} ->
           new_intent \in {"email_action", "faculty_contact", "general_chat", "unknown",
                           "college_rag_query", "academic_program_query", "ticket_create"}
      [] active_flow = "ticket" ->
           new_intent \in {"ticket_create", "issue_description", "general_chat", "unknown"}
      [] OTHER -> FALSE

\* str.split(): the words of a text whose whitespace is spaces.
Words(s) ==
    LET word(i, j) == /\ i <= j
                      /\ \A k \in i..j : CharAt(s, k) # " "
                      /\ (i = 1 \/ CharAt(s, i - 1) = " ")
                      /\ (j = Len(s) \/ CharAt(s, j + 1) = " ")
    IN { SubSeq(s, p[1], p[2]) :
           p \in { p \in (1..Len(s)) \X (1..Len(s)) : word(p[1], p[2]) } }

\* _validate_user_response for the question of the sensitive-complaint flow:
\* whether the reply is valid, and the value extracted from it (True and
\* False as text).
_validate_user_response(expected_type, user_message) ==
    LET msg_lower == about[user_message].msg_lower
    IN IF msg_lower \in {"yes", "confirm", "proceed", "create", "submit"}
       THEN [is_valid |-> TRUE, extracted_value |-> "True"]
       ELSE IF msg_lower \in {"no", "cancel", "not now"}
       THEN [is_valid |-> TRUE, extracted_value |-> "False"]
       ELSE [is_valid |-> FALSE, extracted_value |-> None]

\* A reply to a pending question. A valid reply fills the slot of the
\* question, clears the question and continues the flow (which, for the
\* sensitive-complaint flow, sets the confidence and no intent). An invalid
\* one counts a retry in clarification_context: the third ends the flow, an
\* earlier one asks again. (The questions of the email and ticket flows are
\* derived from a step that no session of this model reads back; for them
\* the reply is passed on as it is.)
_handle_followup_response(st, user_message) ==
    LET expected_type == st.expected_response_type
        v == _validate_user_response(expected_type, user_message)
        slots == st.extracted_slots
        slot_name == response_type_to_slot(expected_type)
        retry_count == st.clarification_context.retry_count + 1
        counted == [st EXCEPT !.clarification_context.retry_count = retry_count,
                              !.followup = "invalid", !.selected_agent = "orchestrator"]
    IN IF expected_type # "sensitive_confirmation"
       THEN [st EXCEPT !.final_response = "followup"]
       ELSE IF v.is_valid
       THEN [st EXCEPT !.extracted_slots =
                           [k \in DOMAIN slots \cup {slot_name} |->
                              IF k = slot_name THEN v.extracted_value ELSE slots[k]],
                       !.expected_response_type = None,
                       !.followup = "valid",
                       !.confidence = 100, !.requires_clarification = FALSE]
       ELSE IF retry_count >= 3
       THEN [counted EXCEPT !.active_flow = None, !.expected_response_type = None,
                            !.extracted_slots = EmptyDict,
                            !.final_response = "let's start over"]
       ELSE [counted EXCEPT !.final_response = "retry message"]

\* Node 1. intent_result is the answer of the LLM classifier, asked first
\* whatever the state. With an active flow: a cancel keyword
\* resets the flow, a complaint or a strong incompatible intent resets it and
\* is classified afresh, and anything else continues the flow with the step
\* the state holds. (A continued flow whose step asks for a reply goes on to
\* the follow-up handler, marked "followup" here.)
_node_classify_intent(st, user_message, intent_result) ==
    LET new_intent == intent_result.intent
        confidence == intent_result.confidence
        active_flow == st.active_flow
        is_complaint == new_intent \in {"ticket_create", "sensitive_complaint"} /\ confidence > 70
        is_awaiting_email_input ==
            st.expected_response_type \in
                {"email_purpose", "faculty_name", "faculty_selection", "email_confirmation",
                 "recipient_email", "recipient_name", "editing_subject", "editing_body",
                 "editing_recipient_email"}
        s1 == IF is_complaint /\ active_flow # "ticket" /\ ~is_awaiting_email_input
              THEN _reset_flow_state(st) ELSE st
        step_to_expected_type ==
            CASE s1.contact_faculty_step = "awaiting_type_selection"  -> "email_type_selection"
              [] s1.contact_faculty_step = "awaiting_recipient_email" -> "recipient_email"
              [] s1.contact_faculty_step = "awaiting_recipient_name"  -> "recipient_name"
              [] s1.contact_faculty_step = "awaiting_faculty"         -> "faculty_name"
              [] s1.contact_faculty_step = "awaiting_selection"       -> "faculty_selection"
              [] s1.contact_faculty_step = "awaiting_purpose"         -> "email_purpose"
              [] s1.contact_faculty_step = "preview"                  -> "email_confirmation"
              [] s1.contact_faculty_step \in {"editing_subject", "editing_body",
                                              "editing_recipient_email"} -> s1.contact_faculty_step
              [] OTHER -> None
        derived_expected_type ==
            IF active_flow \in {"email", "contact_faculty"} THEN step_to_expected_type
            ELSE IF active_flow = "sensitive_complaint"
                    /\ s1.expected_response_type = "sensitive_confirmation"
                 THEN "sensitive_confirmation" ELSE None
        standard(s) ==
            IF about[user_message].is_capability_question /\ confidence > 80
            THEN [s EXCEPT !.intent = "general_chat", !.confidence = 95,
                           !.is_multi_intent = intent_result.is_multi_intent]
            ELSE [s EXCEPT !.intent = new_intent, !.confidence = confidence,
                           !.is_multi_intent = intent_result.is_multi_intent]
    IN IF active_flow = None THEN standard(st)
       ELSE IF about[user_message].is_cancel
       THEN [_reset_flow_state(st) EXCEPT !.intent = "general_chat",
                                          !.final_response = "Action cancelled"]
       ELSE IF /\ confidence > 85 /\ ~_is_intent_compatible(new_intent, active_flow)
               /\ s1.expected_response_type = None /\ ~about[user_message].is_short_input
       THEN standard(_reset_flow_state(s1))
       ELSE IF derived_expected_type = None THEN s1
       ELSE IF response_type_to_slot(derived_expected_type) \in DOMAIN s1.extracted_slots
       THEN [s1 EXCEPT !.expected_response_type = None]
       ELSE _handle_followup_response(
                [s1 EXCEPT !.expected_response_type = derived_expected_type], user_message)

\* Node 4 as it would be with a threshold for each intent.
_node_detect_ambiguity_per_intent(st) ==
    [st EXCEPT !.requires_clarification =
        \/ st.confidence < (CASE st.intent = "college_rag_query" -> 45
                              [] st.intent = "general_chat" -> 30
                              [] OTHER -> 65)
        \/ st.is_multi_intent
        \/ st.intent = "unknown"]

\* Node 4: a confidence below the threshold, several intents in one message,
\* or the intent unknown, asks for clarification.
_node_detect_ambiguity(st) ==
    [st EXCEPT !.requires_clarification =
        \/ st.confidence < CONFIDENCE_THRESHOLD
        \/ st.is_multi_intent
        \/ st.intent = "unknown"]

\* The clarification question replaces whatever answer the state held.
_node_clarify(st) ==
    [st EXCEPT !.final_response = "clarification question",
               !.selected_agent = "clarification"]

\* The email flow handler. generated_subject and generated_body are what
\* email_agent.generate_email_subject / generate_email_body return, send_ok
\* whether email_agent.send_email reports success. In step awaiting_purpose
\* the message becomes the purpose and the draft is generated; the preview
\* step without a draft goes back to that step when the slots hold a
\* recipient and a purpose. (A message that names a faculty member, and the
\* other steps between init and preview, are not reached by the messages of
\* this model.)
_node_handle_faculty_flow(st, user_message, generated_subject, generated_body, send_ok) ==
    LET msg_lower == about[user_message].msg_lower
        step == st.contact_faculty_step
        slots == st.extracted_slots
        extracted_email == about[user_message].extracted_email
        purpose == about[user_message].purpose
        draft == st.email_draft
        cleared == [_reset_flow_state(st) EXCEPT !.final_response = "email cancelled",
                                                 !.selected_agent = "orchestrator"]
        awaiting_purpose ==
            [st EXCEPT !.extracted_slots =
                           [k \in DOMAIN slots \cup {"purpose"} |->
                              IF k = "purpose" THEN user_message ELSE slots[k]],
                       !.email_draft = [to |-> IF "recipient_email" \in DOMAIN slots
                                               THEN slots["recipient_email"] ELSE "",
                                        subject |-> generated_subject,
                                        body |-> generated_body],
                       !.contact_faculty_step = "preview",
                       !.confirmation_pending = TRUE,
                       !.expected_response_type = "email_confirmation",
                       !.final_response = "email preview"]
    IN IF step = None \/ (step = "init" /\ "email_type" \notin DOMAIN slots)
       THEN IF extracted_email # ""
            THEN LET found == ("email_type" :> "external") @@
                              ("recipient_email" :> extracted_email) @@ slots
                 IN IF purpose # ""
                    THEN [st EXCEPT !.active_flow = "email",
                                    !.extracted_slots = ("purpose" :> purpose) @@ found,
                                    !.email_draft = [to |-> extracted_email,
                                                     subject |-> generated_subject,
                                                     body |-> generated_body],
                                    !.contact_faculty_step = "preview",
                                    !.expected_response_type = "email_confirmation",
                                    !.final_response = "email preview"]
                    ELSE [st EXCEPT !.active_flow = "email", !.extracted_slots = found,
                                    !.contact_faculty_step = "awaiting_purpose",
                                    !.expected_response_type = "email_purpose",
                                    !.final_response = "what is the purpose"]
            ELSE [st EXCEPT !.active_flow = "email",
                            !.contact_faculty_step = "awaiting_recipient_email",
                            !.expected_response_type = "recipient_email",
                            !.final_response = "what is the recipient's address"]
       ELSE IF step = "awaiting_purpose" THEN awaiting_purpose
       ELSE IF step = "preview"
               /\ st.expected_response_type \in {None, "email_confirmation"}
       THEN IF draft = NoDraft
            THEN IF {"recipient_email", "purpose"} \subseteq DOMAIN slots
                 THEN awaiting_purpose
                 ELSE [_reset_flow_state(st) EXCEPT
                          !.final_response = "lost track of the email"]
            ELSE IF msg_lower \in {"send", "yes", "confirm", "ok"}
            THEN LET to_send == IF "recipient_email" \in DOMAIN slots
                                THEN [draft EXCEPT !.to = slots["recipient_email"]]
                                ELSE draft
                 IN IF send_ok
                    THEN [_reset_flow_state(st) EXCEPT !.sent = to_send,
                                                       !.final_response = "email sent",
                                                       !.selected_agent = "orchestrator"]
                    ELSE [st EXCEPT !.sent = to_send, !.email_draft = to_send,
                                    !.expected_response_type = "email_confirmation",
                                    !.final_response = "failed to send"]
            ELSE IF msg_lower \in {"cancel", "abort", "stop", "no"} THEN cleared
            ELSE [st EXCEPT !.expected_response_type = "email_confirmation",
                            !.final_response = "email preview"]
       ELSE [st EXCEPT !.selected_agent = "contact_faculty"]

\* The ticket flow handler for a sensitive complaint: the first message asks
\* whether an urgent ticket shall be raised, and a message that meets that
\* question confirms, declines or is asked again. (The other ticket intents
\* are not among the classifier answers of this model.)
_node_handle_ticket_flow(st, user_message) ==
    LET msg_lower == about[user_message].msg_lower
        user_words == Words(msg_lower)
        is_confirmed == \/ user_words \cap {"yes", "confirm", "proceed", "create", "submit"} # {}
                        \/ {"raise", "ticket"} \subseteq user_words
        description == IF st.clarification_context.original_message # ""
                       THEN st.clarification_context.original_message ELSE user_message
    IN IF st.expected_response_type = "sensitive_confirmation"
       THEN IF is_confirmed
            THEN [st EXCEPT !.extracted_slots =
                                [k \in DOMAIN st.extracted_slots \cup
                                        {"category", "sub_category", "priority", "description",
                                         "is_sensitive"} |->
                                   CASE k = "category" -> "Other"
                                     [] k = "sub_category" -> "Complaint"
                                     [] k = "priority" -> "Urgent"
                                     [] k = "description" -> description
                                     [] k = "is_sensitive" -> "True"
                                     [] OTHER -> st.extracted_slots[k]],
                            !.confirmation_pending = TRUE,
                            !.final_response = "creating urgent ticket",
                            !.selected_agent = "ticket",
                            !.expected_response_type = None,
                            !.email_draft = NoDraft, !.contact_faculty_step = None,
                            !.active_flow = None]
            ELSE IF msg_lower \in {"no", "cancel", "not now"}
            THEN [st EXCEPT !.final_response = "alternatives", !.active_flow = None,
                            !.expected_response_type = None]
            ELSE [st EXCEPT !.final_response = "reply yes or no"]
       ELSE [st EXCEPT !.email_draft = NoDraft, !.contact_faculty_step = None,
                       !.confirmation_pending = FALSE,
                       !.active_flow = "sensitive_complaint",
                       !.expected_response_type = "sensitive_confirmation",
                       !.clarification_context =
                           [original_message |-> user_message, retry_count |-> 0],
                       !.final_response = "shall I raise an urgent ticket",
                       !.selected_agent = "orchestrator"]

\* The graph from its entry to END; node is the last node before END. On the
\* way to generate_response the execution plan names the intent as the
\* selected agent, "unknown" when the state holds none.
graph_invoke(st, user_message, intent_result, subject, body, send_ok) ==
    LET c == _node_detect_ambiguity(_node_classify_intent(st, user_message, intent_result))
    IN IF c.requires_clarification THEN [_node_clarify(c) EXCEPT !.node = "clarify"]
       ELSE IF c.intent \in {"college_rag_query", "academic_program_query"}
       THEN [c EXCEPT !.final_response = "answer of the FAQ agent",
                      !.node = "execute_agent"]
       ELSE IF c.intent \in {"faculty_contact", "email_action"}
       THEN [_node_handle_faculty_flow(c, user_message, subject, body, send_ok)
                EXCEPT !.node = "handle_faculty_flow"]
       ELSE IF c.intent = "sensitive_complaint"
       THEN [_node_handle_ticket_flow(c, user_message) EXCEPT !.node = "handle_ticket_flow"]
       ELSE [c EXCEPT !.final_response = "reply", !.node = "generate_response",
                      !.selected_agent = IF c.intent = "" THEN "unknown" ELSE c.intent]

\* The selected agent the envelope can carry. _route_after_self_resolution
\* writes "faq" into the state it is handed on the way to the FAQ agent; the
\* write reaches the final state or is dropped by the graph runtime.
selected_agents(final_state) ==
    IF final_state.node = "execute_agent" THEN {"faq", final_state.selected_agent}
    ELSE {final_state.selected_agent}

\* The envelope type chosen after the graph has run.
response_type(final_state) ==
    IF final_state.requires_clarification THEN "clarification_request"
    ELSE IF final_state.email_draft # NoDraft
            /\ final_state.intent \in {"email_action", "faculty_contact"}
    THEN "email_preview"
    ELSE IF final_state.confirmation_pending THEN "confirmation_request"
    ELSE "information"

\* agent_protocol.compact_state_summary plus the conversation_state entry:
\* the metadata saved with the messages of the turn.
compact_state_summary(final_state, current_step, turns) ==
    [intent |-> IF final_state.intent = "" THEN None ELSE final_state.intent,
     active_flow |-> final_state.active_flow,
     active_slots |-> final_state.extracted_slots,
     expected_response_type |-> final_state.expected_response_type,
     start_time |-> None,
     conversation_state |->
        [current_intent |-> final_state.intent, current_step |-> current_step,
         filled_slots |-> final_state.extracted_slots, turns_in_current_flow |-> turns]]

\* ------------------------------------------ process_message, as a whole
\* What the LLM may answer: an intent with a confidence (in hundredths), and
\* a subject for an email.
Classifications ==
    { [intent |-> "email_action", confidence |-> 90, is_multi_intent |-> FALSE],
      [intent |-> "college_rag_query", confidence |-> 90, is_multi_intent |-> FALSE],
      [intent |-> "general_chat", confidence |-> 90, is_multi_intent |-> FALSE],
      [intent |-> "general_chat", confidence |-> 60, is_multi_intent |-> FALSE] }
Subjects == {Text("Seminar", ""), Text("Seminar", " tomorrow")}

FlowOf(st) ==
    [active_flow |-> st.active_flow, extracted_slots |-> st.extracted_slots,
     contact_faculty_step |-> st.contact_faculty_step,
     expected_response_type |-> st.expected_response_type, email_draft |-> st.email_draft,
     clarification_context |-> st.clarification_context]

NoTurn ==
    [n |-> 0, user_message |-> "", loaded |-> FlowOf(NoFlow), received |-> FlowOf(NoFlow),
     ended |-> FlowOf(NoFlow), ended_type |-> "none", final |-> FlowOf(NoFlow),
     type |-> "none", agent |-> "none", sent |-> NoDraft, invalid |-> 0,
     llm |-> [intent |-> "", confidence |-> 0, is_multi_intent |-> FALSE], node |-> "none", response |-> None,
     after_cancel |-> FALSE, cancel_pending |-> FALSE]

\* One turn of POST /api/chat/orchestrator: load the state of the session,
\* correct it, run the graph, choose the envelope, save the messages of the
\* turn with the compact metadata. turns_in_current_flow is read with .get()
\* from the loaded conversation_state when the turn ends in a flow, which
\* raises (answered with status 500, nothing saved) when that value is a str.
process_message(user_message, llm, generated_subject, send_ok) ==
    /\ \E fl \in {load_flow_state} :
       \E received \in {pre_graph(fl, user_message)} :
       \E out \in {graph_invoke(initial_state(received), user_message, llm,
                                generated_subject, "B1", send_ok)} :
       \E final_state \in {IF out.intent \in {"email_action", "faculty_contact"}
                            THEN out ELSE [out EXCEPT !.email_draft = NoDraft]} :
       \E agent \in selected_agents(final_state) :
       \E counted \in IF final_state.followup = "valid" /\ ~is_str(fl.conversation_state)
                       THEN {0, 1} ELSE {0} :
       LET raised == final_state.active_flow # None /\ is_str(fl.conversation_state)
           turns == IF final_state.active_flow = None THEN 0
                    ELSE IF DOMAIN fl.conversation_state = {} THEN 1 + counted
                    ELSE fl.conversation_state.turns_in_current_flow + 1 + counted
           cancels == received.active_flow # None /\ about[user_message].is_cancel
       IN /\ history' =
                IF raised THEN history
                ELSE Append(history, compact_state_summary(final_state,
                                         final_state.contact_faculty_step, turns))
          /\ shown' = IF ~raised /\ response_type(final_state) = "email_preview"
                      THEN final_state.email_draft ELSE shown
          /\ turn' = [n |-> turn.n + 1, user_message |-> user_message,
                      loaded |-> FlowOf(fl), received |-> FlowOf(received),
                      ended |-> turn.final, ended_type |-> turn.type,
                      final |-> FlowOf(final_state),
                      type |-> IF raised THEN "error" ELSE response_type(final_state),
                      agent |-> IF raised THEN "error" ELSE agent,
                      sent |-> final_state.sent,
                      invalid |-> IF final_state.followup = "invalid"
                                  THEN turn.invalid + 1 ELSE 0,
                      llm |-> llm, node |-> final_state.node,
                      response |-> IF raised THEN "error"
                                   ELSE final_state.final_response,
                      after_cancel |-> turn.cancel_pending,
                      cancel_pending |->
                          IF cancels THEN TRUE
                          ELSE IF received.active_flow = None /\ final_state.active_flow # None
                          THEN FALSE ELSE turn.cancel_pending]

\* A turn in a run that leaves the flow-pause manager aside.
ProcessMessage(user_message, llm, generated_subject, send_ok) ==
    /\ turn.n < MaxTurns
    /\ process_message(user_message, llm, generated_subject, send_ok)
    /\ UNCHANGED <<today, daily_usage, executed_actions, thread, started, last, effects,
                   succ, backend, pause_vars, memory_vars, dedup_vars, incr_vars, protocol_vars, ticket_vars>>

\* ------------------------------------------------------------ flow_pause.py
\* The flow-pause manager of the process. Time is counted in minutes.
inactivity_timeout_minutes == 30
timeout_seconds == inactivity_timeout_minutes

Sessions == {"s1"}
FlowNames == {"email", "ticket"}
\* The state dicts a caller pauses.
FlowStates == {[step |-> "awaiting_purpose"], [step |-> "preview"]}

NoBlob == [absent |-> TRUE]
Nothing == [nothing |-> TRUE]
NoActivity == -1

\* A stored dict that is the caller's own dict.
alias(state) == [alias |-> TRUE]
\* dict.copy(): a dict of its own with the items the caller's dict has now.
copy(state) == [own |-> state]
\* The items of a stored dict when it is read.
items(stored) == IF DOMAIN stored = {"alias"} THEN caller ELSE stored.own

is_expired_strictly_after(now, flow_data) == now > flow_data.expires_at
is_expired(now, flow_data) == now >= flow_data.expires_at

\* FlowPauseManager._clean_expired_flows
_clean_expired_flows(flows, session_id, now) ==
    [flows EXCEPT ![session_id] =
        [f \in FlowNames |-> IF @[f] # NoBlob /\ is_expired(now, @[f]) THEN NoBlob ELSE @[f]]]

\* FlowPauseManager.pause_flow
pause_flow(flows, session_id, flow_name, state, now) ==
    [flows EXCEPT ![session_id][flow_name] =
        [state |-> copy(state), paused_at |-> now, expires_at |-> now + timeout_seconds]]

\* FlowPauseManager.resume_flow without the removal of the resumed flow.
resume_flow_keeping(flows, session_id, flow_name, now) ==
    LET cleaned == _clean_expired_flows(flows, session_id, now)
        flow_data == cleaned[session_id][flow_name]
    IN IF flow_data = NoBlob THEN [state |-> Nothing, flows |-> cleaned]
       ELSE [state |-> items(flow_data.state), flows |-> cleaned]

\* FlowPauseManager.resume_flow: what it returns, and the flows it leaves.
resume_flow(flows, session_id, flow_name, now) ==
    LET cleaned == _clean_expired_flows(flows, session_id, now)
        flow_data == cleaned[session_id][flow_name]
        removed == [cleaned EXCEPT ![session_id][flow_name] = NoBlob]
    IN IF flow_data = NoBlob THEN [state |-> Nothing, flows |-> cleaned]
       ELSE IF is_expired(now, flow_data) THEN [state |-> Nothing, flows |-> removed]
       ELSE [state |-> items(flow_data.state), flows |-> removed]

\* FlowPauseManager.has_paused_flow
has_paused_flow(flows, session_id, flow_name, now) ==
    LET cleaned == _clean_expired_flows(flows, session_id, now)
        flow_data == cleaned[session_id][flow_name]
    IN [has |-> flow_data # NoBlob /\ ~is_expired(now, flow_data), flows |-> cleaned]

\* FlowPauseManager.end_session
end_session(flows, session_id) == [flows EXCEPT ![session_id] = [f \in FlowNames |-> NoBlob]]

NoGiven == [status |-> "none"]
Returned(op, session_id, flow_name, state, has) ==
    [op |-> op, session |-> session_id, flow |-> flow_name, state |-> state, has |-> has]

\* pause_flow(session_id, flow_name, state) of the module
PauseFlow(session_id, flow_name) ==
    /\ session_activity' = [session_activity EXCEPT ![session_id] = clock]
    /\ paused_flows' = pause_flow(paused_flows, session_id, flow_name, caller, clock)
    /\ given' = [given EXCEPT ![session_id][flow_name] =
                     [status |-> "paused", state |-> caller, at |-> clock]]
    /\ pause_ret' = Returned("pause", session_id, flow_name, Nothing, FALSE)
    /\ UNCHANGED <<clock, caller>>

\* resume_flow(session_id, flow_name) of the module
ResumeFlow(session_id, flow_name) ==
    LET r == resume_flow(paused_flows, session_id, flow_name, clock)
    IN /\ session_activity' = [session_activity EXCEPT ![session_id] = clock]
       /\ paused_flows' = r.flows
       /\ given' = IF r.state # Nothing
                   THEN [given EXCEPT ![session_id][flow_name].status = "resumed"]
                   ELSE given
       /\ pause_ret' = Returned("resume", session_id, flow_name, r.state, FALSE)
       /\ UNCHANGED <<clock, caller>>

\* has_paused_flow(session_id, flow_name) of the module
HasPausedFlow(session_id, flow_name) ==
    LET r == has_paused_flow(paused_flows, session_id, flow_name, clock)
    IN /\ paused_flows' = r.flows
       /\ pause_ret' = Returned("has", session_id, flow_name, Nothing, r.has)
       /\ UNCHANGED <<session_activity, clock, caller, given>>

\* clear_flow(session_id, flow_name) of the module
ClearFlow(session_id, flow_name) ==
    /\ paused_flows' = [paused_flows EXCEPT ![session_id][flow_name] = NoBlob]
    /\ given' = IF given[session_id][flow_name].status = "paused"
                THEN [given EXCEPT ![session_id][flow_name].status = "cleared"]
                ELSE given
    /\ pause_ret' = Returned("clear", session_id, flow_name, Nothing, FALSE)
    /\ UNCHANGED <<session_activity, clock, caller>>

\* update_session_activity followed by check_session_timeout, as every chat
\* turn calls them, and check_session_timeout alone.
CheckSessionTimeout(session_id, update_first) ==
    LET last_activity == IF update_first THEN clock ELSE session_activity[session_id]
        timed_out == /\ last_activity # NoActivity
                     /\ clock - last_activity > timeout_seconds
    IN /\ session_activity' =
             [session_activity EXCEPT ![session_id] =
                 IF timed_out THEN NoActivity ELSE last_activity]
       /\ paused_flows' = IF timed_out THEN end_session(paused_flows, session_id)
                          ELSE paused_flows
       /\ given' = IF timed_out
                   THEN [given EXCEPT ![session_id] =
                           [f \in FlowNames |->
                              IF @[f].status = "paused"
                              THEN [@[f] EXCEPT !.status = "cleared"] ELSE @[f]]]
                   ELSE given
       /\ pause_ret' = Returned("timeout", session_id, "", Nothing, timed_out)
       /\ UNCHANGED <<clock, caller>>

\* The caller goes on using its dict after it paused the flow.
CallerMutates ==
    /\ \E d \in FlowStates \ {caller} : caller' = d
    /\ UNCHANGED <<paused_flows, session_activity, clock, given, pause_ret>>

\* A quarter of an hour passes.
Advance ==
    /\ clock < MaxClock
    /\ clock' = clock + 15
    /\ UNCHANGED <<paused_flows, session_activity, caller, given, pause_ret>>

\* ------------------------------------------- chat_memory.py: the messages
ChatSessions == {"s1", "s2"}
Roles == {"user", "assistant", "System"}
Contents == {"hello", "", "  ", None}

\* str.upper()
RECURSIVE upper(_)
upper(s) ==
    IF Len(s) = 0 THEN ""
    ELSE LET c == CharAt(s, 1)
             low == { i \in 1..Len(LOWER) : CharAt(LOWER, i) = c }
         IN (IF low = {} THEN c ELSE CharAt(UPPER, CHOOSE i \in low : TRUE))
              \o upper(SubSeq(s, 2, Len(s)))

\* The guards of save_message without the strip().
skip_message_unstripped(role, content) ==
    content = None \/ content = "" \/ lower(role) = "system"

\* The guards of save_message, of the wrapper and of every backend: content
\* None or blank, or a system role.
skip_message(role, content) ==
    content = None \/ strip(content) = "" \/ lower(role) = "system"

\* ChatMemory.save_message over the backend's save_message: the messages the
\* backend holds afterwards. The timestamp is the utcnow() of the insertion.
save_message(messages, user_id, session_id, role, content) ==
    IF skip_message(role, content) THEN messages
    ELSE Append(messages, [user_id |-> user_id, session_id |-> session_id, role |-> role,
                           content |-> content, timestamp |-> Len(messages) + 1])

\* UpstashRedisChatMemory._session_key
_session_key(user_id, session_id) == "chat:user:" \o user_id \o ":session:" \o session_id

\* The messages of a session, whoever wrote them.
matching_any_user(messages, session_id, user_id) ==
    SelectSeq(messages, LAMBDA m : m.session_id = session_id)

\* The messages a backend selects for (session_id, user_id): the where clause
\* of ChromaDB and SQL, the list under the session key of Upstash.
matching(messages, session_id, user_id) ==
    SelectSeq(messages, LAMBDA m :
        IF backend = "upstash"
        THEN _session_key(m.user_id, m.session_id) = _session_key(user_id, session_id)
        ELSE m.session_id = session_id /\ m.user_id = user_id)

\* The last n elements of a sequence: seq[-n:], lrange(key, -n, -1).
last_n(seq, n) == SubSeq(seq, IF Len(seq) > n THEN Len(seq) - n + 1 ELSE 1, Len(seq))

\* messages.sort(key=timestamp) of the messages with the given positions.
RECURSIVE sort_by_timestamp(_, _)
sort_by_timestamp(rows, picked) ==
    IF picked = {} THEN <<>>
    ELSE LET first == CHOOSE i \in picked :
                          \A j \in picked : rows[i].timestamp <= rows[j].timestamp
         IN <<rows[first]>> \o sort_by_timestamp(rows, picked \ {first})

\* The content ChromaDB returns: the document "[ROLE] content" without a
\* leading "[USER] " or "[BOT] ".
chroma_content(m) ==
    LET document == "[" \o upper(m.role) \o "] " \o m.content
    IN IF SubSeq(document, 1, 7) = "[USER] " THEN SubSeq(document, 8, Len(document))
       ELSE IF SubSeq(document, 1, 6) = "[BOT] " THEN SubSeq(document, 7, Len(document))
       ELSE document

\* get_session_history of the backend: the lists it can return. ChromaDB gets
\* any `limit` of the matching documents (collection.get has no order), sorts
\* them by timestamp and returns the last `limit`; Upstash returns the tail of
\* the list; SQLite and PostgreSQL return ORDER BY timestamp DESC LIMIT limit.
backend_get_session_history(messages, session_id, user_id, limit) ==
    LET rows == matching(messages, session_id, user_id)
        k == IF Len(rows) > limit THEN limit ELSE Len(rows)
    IN CASE backend = "chromadb" ->
              { last_n([i \in 1..k |->
                          LET m == sort_by_timestamp(rows, picked)[i]
                          IN [m EXCEPT !.content = chroma_content(m)]], limit) :
                  picked \in { p \in SUBSET (1..Len(rows)) : Cardinality(p) = k } }
         [] backend = "upstash" -> { last_n(rows, limit) }
         [] backend = "sqlite"  -> { SubSeq(reversed(rows), 1, k) }

\* ChatMemory.get_session_history: nothing without a user_id.
ChatMemory_get_session_history(messages, session_id, user_id, limit) ==
    IF user_id = None THEN { <<>> }
    ELSE backend_get_session_history(messages, session_id, user_id, limit)

Called(op, user_id, session_id, role, content, limit, messages, status) ==
    [op |-> op, user_id |-> user_id, session_id |-> session_id, role |-> role,
     content |-> content, limit |-> limit, messages |-> messages, status |-> status]

\* chat_memory.save_message(user_id, session_id, role, content)
SaveMessage(user_id, session_id, role, content) ==
    /\ Len(chat_messages) < MaxStored
    /\ chat_messages' = save_message(chat_messages, user_id, session_id, role, content)
    /\ mem_ret' = Called("save_message", user_id, session_id, role, content, 0, <<>>, 0)

\* chat_memory.get_session_history(session_id, user_id, limit)
GetSessionHistory(user_id, session_id, limit) ==
    /\ \E messages \in ChatMemory_get_session_history(chat_messages, session_id,
                                                       user_id, limit) :
         mem_ret' = Called("get_session_history", user_id, session_id, "", "", limit,
                           messages, 0)
    /\ UNCHANGED chat_messages

\* GET /api/chat/session/<session_id> of an authenticated user: the history is
\* read without a user_id, and refused when its first message is not the
\* user's.
GetChatSession(user_id, session_id) ==
    /\ \E messages \in ChatMemory_get_session_history(chat_messages, session_id,
                                                       None, HISTORY_LIMIT) :
         mem_ret' = IF Len(messages) > 0 /\ messages[1].user_id # user_id
                    THEN Called("get_chat_session", user_id, session_id, "", "", 0, <<>>, 403)
                    ELSE Called("get_chat_session", user_id, session_id, "", "", 0,
                                messages, 200)
    /\ UNCHANGED chat_messages

\* ----------------------------- limits_service.py: increment_usage, stepwise
NoWriter == "none"
IncrIdle == [pc |-> "idle", user |-> "", kind |-> "", date |-> 0, value |-> 0]

\* A BEGIN that takes no write lock.
begin_unlocked(writer) == TRUE

\* BEGIN IMMEDIATE succeeds when no other connection holds the write lock.
begin_immediate(writer) == writer = NoWriter

\* The calls that are under way or have returned.
IncrCalls == Cardinality({ p \in Workers : incr_thread[p].pc # "idle" })
IncrReturned ==
    incr_ok["u1"]["email"] + incr_ok["u1"]["ticket"]
      + incr_ok["u2"]["email"] + incr_ok["u2"]["ticket"]

\* increment_usage(student_email, action_type): the date is read and the
\* connection is opened.
IncrStart(p, u, k) ==
    /\ incr_thread[p].pc = "idle"
    /\ IncrCalls + IncrReturned < MaxIncrements
    /\ incr_thread' = [incr_thread EXCEPT ![p] =
           [IncrIdle EXCEPT !.pc = "begin", !.user = u, !.kind = k, !.date = today_kolkata]]
    /\ UNCHANGED <<daily_usage, db_writer, incr_ok>>

\* conn.execute("BEGIN IMMEDIATE"): the write lock is taken, or the call
\* raises "database is locked" while another connection holds it.
IncrBegin(p) ==
    /\ incr_thread[p].pc = "begin"
    /\ IF begin_immediate(db_writer)
       THEN /\ db_writer' = p
            /\ incr_thread' = [incr_thread EXCEPT ![p].pc = "upsert"]
       ELSE /\ incr_thread' = [incr_thread EXCEPT ![p] = IncrIdle]
            /\ UNCHANGED db_writer
    /\ UNCHANGED <<daily_usage, incr_ok>>

\* INSERT ... ON CONFLICT DO UPDATE SET col = col + 1: the new value of the
\* column, from the row as the connection sees it.
IncrUpsert(p) ==
    LET t == incr_thread[p]
    IN /\ t.pc = "upsert"
       /\ incr_thread' = [incr_thread EXCEPT
              ![p].pc = "commit", ![p].value = daily_usage[t.user][t.date][t.kind] + 1]
       /\ UNCHANGED <<daily_usage, db_writer, incr_ok>>

\* conn.commit(), or the rollback of a failed commit; conn.close() either way.
IncrCommit(p) ==
    LET t == incr_thread[p]
    IN /\ t.pc = "commit"
       /\ \E ok \in BOOLEAN :
            IF ok
            THEN /\ daily_usage' = [daily_usage EXCEPT ![t.user][t.date][t.kind] = t.value]
                 /\ incr_ok' = [incr_ok EXCEPT ![t.user][t.kind] = @ + 1]
            ELSE UNCHANGED <<daily_usage, incr_ok>>
       /\ db_writer' = IF db_writer = p THEN NoWriter ELSE db_writer
       /\ incr_thread' = [incr_thread EXCEPT ![p] = IncrIdle]

\* ------------------------------------------------------- deduplication.py
\* The deduplication service of the process. Time is counted in seconds.
ttl_seconds == 30
Free == "free"
NoEntries == [h \in {} |-> 0]

bypass_keywords ==
    {"retry", "resend", "send again", "try again", "once more", "one more time",
     "please send", "send it", "do it again"}

DedupMessages == {"hello", "Please RETRY"}
Responses == {"r1", "r2"}
\* The intent and the entities of the requests.
DedupIntent == "email_action"
DedupEntities == [recipient |-> "friend@gmail.com"]

\* should_bypass without the lower().
should_bypass_case_sensitive(message) == any_in(bypass_keywords, message)

\* DeduplicationService.should_bypass
should_bypass(message) == any_in(bypass_keywords, lower(message))

\* DeduplicationService.compute_hash: the SHA-256 of the hash input is written
\* as the hash input itself.
compute_hash(user_id, intent, entities, timestamp) ==
    [user_id |-> user_id, intent |-> intent, entities |-> entities,
     rounded_ts |-> timestamp - (timestamp % 60)]

\* A lock that anybody acquires at once.
acquire_unguarded(lock) == TRUE

\* `with self.lock:` is entered when the lock is free.
can_acquire(lock) == lock = Free

NotCached == [status |-> "none"]
NoHash == [none |-> TRUE]
NoRet == [op |-> "none", dup |-> FALSE, response |-> None]
DedupIdle ==
    [pc |-> "idle", op |-> "none", user_id |-> "", message |-> "", request_hash |-> NoHash,
     response |-> "", expiry |-> 0, expired_keys |-> {}, saw |-> NotCached, ret |-> NoRet]

\* The program points inside a `with self.lock:` block.
CachePcs == {"_clean_expired", "delete", "lookup", "store", "cache.clear"}

\* check_duplicate(user_id, intent, entities, message), up to the lock of
\* is_duplicate.
CheckDuplicate(p, user_id, message) ==
    /\ dedup_thread[p].pc = "idle"
    /\ dedup_thread' = [dedup_thread EXCEPT ![p] =
           IF should_bypass(message)
           THEN [DedupIdle EXCEPT !.op = "check_duplicate", !.message = message,
                                  !.ret = [op |-> "check_duplicate", dup |-> FALSE,
                                           response |-> None]]
           ELSE [DedupIdle EXCEPT !.pc = "is_duplicate", !.op = "check_duplicate",
                                  !.user_id = user_id, !.message = message,
                                  !.request_hash = compute_hash(user_id, DedupIntent,
                                                                DedupEntities, dedup_now),
                                  !.saw = dedup_given[user_id]]]
    /\ UNCHANGED <<dedup_cache, dedup_lock, dedup_now, dedup_given>>

\* cache_response(user_id, intent, entities, response), up to the lock.
CacheResponse(p, user_id, response) ==
    /\ dedup_thread[p].pc = "idle"
    /\ dedup_thread' = [dedup_thread EXCEPT ![p] =
           [DedupIdle EXCEPT !.pc = "cache_response", !.op = "cache_response",
                             !.user_id = user_id, !.response = response,
                             !.request_hash = compute_hash(user_id, DedupIntent,
                                                           DedupEntities, dedup_now),
                             !.expiry = dedup_now + ttl_seconds]]
    /\ UNCHANGED <<dedup_cache, dedup_lock, dedup_now, dedup_given>>

\* DeduplicationService.clear, up to the lock.
DedupClear(p) ==
    /\ dedup_thread[p].pc = "idle"
    /\ dedup_thread' = [dedup_thread EXCEPT ![p] =
           [DedupIdle EXCEPT !.pc = "clear", !.op = "clear"]]
    /\ UNCHANGED <<dedup_cache, dedup_lock, dedup_now, dedup_given>>

\* `with self.lock:` of is_duplicate, cache_response and clear.
Acquire(p) ==
    /\ dedup_thread[p].pc \in {"is_duplicate", "cache_response", "clear"}
    /\ can_acquire(dedup_lock)
    /\ dedup_lock' = p
    /\ dedup_thread' = [dedup_thread EXCEPT ![p].pc =
           CASE @ = "is_duplicate"   -> "_clean_expired"
             [] @ = "cache_response" -> "store"
             [] @ = "clear"          -> "cache.clear"]
    /\ UNCHANGED <<dedup_cache, dedup_now, dedup_given>>

\* _clean_expired: the list of the expired keys.
CleanScan(p) ==
    /\ dedup_thread[p].pc = "_clean_expired"
    /\ dedup_thread' = [dedup_thread EXCEPT
           ![p].pc = "delete",
           ![p].expired_keys = { k \in DOMAIN dedup_cache : dedup_now >= dedup_cache[k].expiry }]
    /\ UNCHANGED <<dedup_cache, dedup_lock, dedup_now, dedup_given>>

\* _clean_expired: `del self.cache[key]` for one of the expired keys (a key
\* that is gone raises KeyError out of the with block), or the end of the loop.
CleanDelete(p) ==
    /\ dedup_thread[p].pc = "delete"
    /\ IF dedup_thread[p].expired_keys = {}
       THEN /\ dedup_thread' = [dedup_thread EXCEPT ![p].pc = "lookup"]
            /\ UNCHANGED <<dedup_cache, dedup_lock>>
       ELSE \E key \in dedup_thread[p].expired_keys :
              IF key \in DOMAIN dedup_cache
              THEN /\ dedup_cache' = [k \in DOMAIN dedup_cache \ {key} |-> dedup_cache[k]]
                   /\ dedup_thread' = [dedup_thread EXCEPT ![p].expired_keys = @ \ {key}]
                   /\ UNCHANGED dedup_lock
              ELSE /\ dedup_thread' = [dedup_thread EXCEPT ![p] =
                          [DedupIdle EXCEPT !.ret = [op |-> "KeyError", dup |-> FALSE,
                                                     response |-> None]]]
                   /\ dedup_lock' = Free
                   /\ UNCHANGED dedup_cache
    /\ UNCHANGED <<dedup_now, dedup_given>>

\* is_duplicate: the lookup of the request hash, and the end of the with block.
Lookup(p) ==
    LET t == dedup_thread[p]
        hit == /\ t.request_hash \in DOMAIN dedup_cache
               /\ dedup_now < dedup_cache[t.request_hash].expiry
    IN /\ t.pc = "lookup"
       /\ dedup_thread' = [dedup_thread EXCEPT ![p] =
              [DedupIdle EXCEPT !.op = t.op, !.message = t.message,
                        !.ret = [op |-> "check_duplicate", dup |-> hit,
                                 response |-> IF hit THEN dedup_cache[t.request_hash].response
                                              ELSE None]]]
       /\ dedup_lock' = Free
       /\ UNCHANGED <<dedup_cache, dedup_now, dedup_given>>

\* cache_response: the assignment, and the end of the with block.
Store(p) ==
    LET t == dedup_thread[p]
    IN /\ t.pc = "store"
       /\ dedup_cache' = [k \in DOMAIN dedup_cache \cup {t.request_hash} |->
                             IF k = t.request_hash
                             THEN [response |-> t.response, expiry |-> t.expiry]
                             ELSE dedup_cache[k]]
       /\ dedup_given' = [dedup_given EXCEPT ![t.user_id] =
                             [status |-> "cached", response |-> t.response,
                              at |-> t.expiry - ttl_seconds]]
       /\ dedup_thread' = [dedup_thread EXCEPT ![p] =
              [DedupIdle EXCEPT !.op = t.op,
                        !.ret = [op |-> "cache_response", dup |-> FALSE, response |-> None]]]
       /\ dedup_lock' = Free
       /\ UNCHANGED dedup_now

\* clear: self.cache.clear(), and the end of the with block.
ClearAll(p) ==
    /\ dedup_thread[p].pc = "cache.clear"
    /\ dedup_cache' = NoEntries
    /\ dedup_given' = [u \in Users |->
                          IF dedup_given[u].status = "cached"
                          THEN [dedup_given[u] EXCEPT !.status = "cleared"]
                          ELSE dedup_given[u]]
    /\ dedup_thread' = [dedup_thread EXCEPT ![p] =
           [DedupIdle EXCEPT !.op = "clear",
                     !.ret = [op |-> "clear", dup |-> FALSE, response |-> None]]]
    /\ dedup_lock' = Free
    /\ UNCHANGED dedup_now

\* Twenty seconds pass.
Tock ==
    /\ dedup_now < MaxNow
    /\ dedup_now' = dedup_now + 20
    /\ UNCHANGED <<dedup_cache, dedup_lock, dedup_thread, dedup_given>>

\* ------------------------------------------------ agent_protocol.py
\* A Python value: its type and, for a string, its text.
Py(type, value) == [type |-> type, value |-> value]
PyNone == Py("NoneType", "")
Str(s) == Py("str", s)
Dict == Py("dict", "")
List == Py("list", "")

\* What an agent function returns: a value that is a dict (with its items), a
\* string (with its text) or None.
NoItems == [k \in {} |-> PyNone]
Returns(v) == [type |-> v.type, text |-> v.value, dict |-> NoItems]
ReturnsDict(d) == [type |-> "dict", text |-> "", dict |-> d]

\* The outcome of agent_func(*args, **kwargs): it raises, or returns ret.
Outcome(raises, ret) == [raises |-> raises, ret |-> ret]

VALID_STATUSES == {"success", "error", "needs_input", "needs_confirmation"}

\* The statuses agents answer with: those of AgentResponse.create, the one
\* faq_agent.py answers with after two clarifications, and one no agent uses.
AgentStatuses == VALID_STATUSES \cup {"needs_escalation", "done"}

Absent == Py("absent", "")
ItemChoices ==
    [status            : {Str(s) : s \in AgentStatuses} \cup {Absent},
     message           : {Str("ok"), Str(""), PyNone, Absent},
     resolved_entities : {Dict, List, Absent},
     artifacts         : {Dict, Str("draft"), Absent},
     side_effects      : {List, Dict, Absent}]

DictOf(c) == [k \in {f \in DOMAIN c : c[f] # Absent} |-> c[k]]

AgentOutcomes ==
    { Outcome(FALSE, ReturnsDict(DictOf(c))) : c \in ItemChoices }
      \cup { Outcome(FALSE, Returns(v)) : v \in {Str("hello"), Str(""), PyNone} }
      \cup { Outcome(TRUE, Returns(PyNone)) }

\* AgentResponse.create, on the items that validate looks at, and metadata.
create(status, message, metadata) ==
    ReturnsDict([status |-> Str(status), message |-> Str(message),
                 resolved_entities |-> Dict, artifacts |-> Dict,
                 side_effects |-> List, metadata |-> Py("dict", metadata)])

Valid == [is_valid |-> TRUE, error |-> "None"]
Invalid(error) == [is_valid |-> FALSE, error |-> error]

validate(response) ==
    IF response.type # "dict" THEN Invalid("Response must be dict")
    ELSE LET d == response.dict IN
      IF "status" \notin DOMAIN d THEN Invalid("Missing required field: status")
      ELSE IF "message" \notin DOMAIN d THEN Invalid("Missing required field: message")
      ELSE IF ~(d.status.type = "str" /\ d.status.value \in VALID_STATUSES)
        THEN Invalid("Invalid status")
      ELSE IF d.message.type # "str" THEN Invalid("Message must be string")
      ELSE IF "resolved_entities" \in DOMAIN d /\ d.resolved_entities.type # "dict"
        THEN Invalid("resolved_entities must be dict")
      ELSE IF "artifacts" \in DOMAIN d /\ d.artifacts.type # "dict"
        THEN Invalid("artifacts must be dict")
      ELSE IF "side_effects" \in DOMAIN d /\ d.side_effects.type # "list"
        THEN Invalid("side_effects must be list")
      ELSE Valid

wrap_legacy_string(text) == create("success", text, "legacy_wrapper")

\* AgentResponse.error: the message follows a cross mark, written (x) here.
error(message, metadata) == create("error", "(x) " \o message, metadata)

InternalError == "An internal error occurred. Please try again."

safe_agent_call(outcome) ==
    IF outcome.raises THEN error(InternalError, "exception")
    ELSE IF outcome.ret.type = "str" THEN wrap_legacy_string(outcome.ret.text)
    ELSE IF ~validate(outcome.ret).is_valid THEN error(InternalError, "validation_error")
    ELSE outcome.ret

SafeAgentCall(outcome) ==
    /\ agent_ret' = [op |-> "safe_agent_call", outcome |-> outcome,
                     result |-> safe_agent_call(outcome)]
    /\ UNCHANGED classified

\* ------------------------------- orchestrator_agent.py: _llm_classify_intent
\* The values of the enum IntentType.
IntentType ==
    {"college_rag_query", "academic_program_query", "issue_description",
     "ticket_create", "ticket_status", "ticket_active", "ticket_resolved",
     "ticket_close", "faculty_contact", "email_action", "retrieve_history",
     "general_chat", "unknown", "sensitive_complaint"}

\* A JSON number, in hundredths, or a value of another type under the key.
Conf(type, num) == [type |-> type, num |-> num]

\* What the chain returns for a message: it raises (the call fails, or the
\* text is not JSON), or it parses to a list, or to an object whose keys are
\* absent or hold values of any type. "FAQ" and "TICKET" are names that are
\* not values of the enum.
LlmOutput(raises, type, intent, confidence, secondary_intent) ==
    [raises |-> raises, type |-> type, intent |-> intent, confidence |-> confidence,
     secondary_intent |-> secondary_intent]

LlmRaises == LlmOutput(TRUE, "dict", Absent, Conf("absent", 0), Absent)

LlmOutputs ==
    { LlmOutput(FALSE, "dict", i, c, s) :
        i \in {Str(v) : v \in IntentType \cup {"FAQ"}} \cup {PyNone, Absent},
        c \in {Conf("float", n) : n \in {0 - 20, 0, 50, 100, 150}}
                \cup {Conf("str", 0), Conf("NoneType", 0), Conf("absent", 0)},
        s \in {Absent, PyNone, Str("ticket_create"), Str("TICKET")} }
      \cup { LlmOutput(FALSE, "list", Absent, Conf("absent", 0), Absent), LlmRaises }

IntentResult(intent, confidence, secondary_intent, failed) ==
    [intent |-> intent, confidence |-> confidence, secondary_intent |-> secondary_intent,
     failed |-> failed]

NoIntentResult == IntentResult("", 0, None, FALSE)

\* The result of the except branch.
ClassificationFailed == IntentResult("unknown", 0, None, TRUE)

\* IntentType(value) raises ValueError for anything that is not a value of the enum.
is_intent(v) == v.type = "str" /\ v.value \in IntentType

\* float(x) of a JSON number: the number, whatever its range. The values of
\* other types raise (TypeError, ValueError) in _llm_classify_intent below.
float(n) == n

_llm_classify_intent(out) ==
    IF out.raises \/ out.type # "dict" THEN ClassificationFailed
    ELSE LET intent_str == IF out.intent = Absent THEN Str("unknown") ELSE out.intent
             intent == IF is_intent(intent_str) THEN intent_str.value ELSE "unknown"
             confidence == IF out.confidence.type = "absent" THEN Conf("float", 50)
                           ELSE out.confidence
             secondary == out.secondary_intent
             falsy == secondary \in {Absent, PyNone, Str("")}
         IN IF confidence.type # "float" THEN ClassificationFailed
            ELSE IF ~falsy /\ ~is_intent(secondary) THEN ClassificationFailed
            ELSE IntentResult(intent, float(confidence.num),
                              IF falsy THEN None ELSE secondary.value, FALSE)

LlmClassifyIntent(out) ==
    /\ classified' = [op |-> "_llm_classify_intent", output |-> out,
                      result |-> _llm_classify_intent(out)]
    /\ UNCHANGED agent_ret

\* ------------------------------------------ ticket_db.py, ticket_agent.py
TicketCategories == {"IT Support", "Hostel"}
OpenStatuses == {"Open", "Assigned", "In Progress"}

TkIdle == [pc |-> "idle", op |-> "none", email |-> "", category |-> "", ticket_id |-> 0]

\* What a call returned: (success, ...) for the ticket and the student it named.
TkReturned(op, email, ticket_id, category, success) ==
    [op |-> op, email |-> email, ticket_id |-> ticket_id, category |-> category,
     success |-> success]

\* The rows a statement selects, as positions in the table.
Rows(rows, where(_)) == { i \in 1..Len(rows) : where(rows[i]) }

\* WHERE student_email = ? AND category = ? AND status IN ('Open', 'Assigned',
\* 'In Progress') ORDER BY created_at DESC LIMIT 1: the ticket_id of the
\* latest such row, or 0 for None.
check_duplicate_ticket(rows, email, category) ==
    LET where(r) == r.student_email = email /\ r.category = category
                    /\ r.status \in OpenStatuses
    IN IF Rows(rows, where) = {} THEN 0 ELSE rows[Max(Rows(rows, where))].ticket_id

\* generate_ticket_id: the number of tickets of the year, plus one.
generate_ticket_id(rows) == Len(rows) + 1

\* A WHERE clause that names the ticket only.
where_ticket(r, ticket_id, student_email) == r.ticket_id = ticket_id

\* WHERE ticket_id = ? AND student_email = ?, of the SELECT and of the UPDATE
\* of update_ticket_status.
where_ticket_and_owner(r, ticket_id, student_email) ==
    r.ticket_id = ticket_id /\ r.student_email = student_email

\* A WHERE clause of close_all_tickets that leaves the student out.
where_open(r, student_email) == r.status \in OpenStatuses

\* WHERE student_email = ? AND status IN ('Open', 'In Progress', 'Assigned').
where_owner_and_open(r, student_email) ==
    r.student_email = student_email /\ r.status \in OpenStatuses

\* UPDATE tickets SET status = 'Closed' on the rows selected.
closed(rows, S) ==
    [i \in 1..Len(rows) |-> IF i \in S THEN [rows[i] EXCEPT !.status = "Closed"] ELSE rows[i]]

TkGoto(p, t) ==
    /\ tk_thread' = [tk_thread EXCEPT ![p] = t]
    /\ UNCHANGED tk_ret

TkReturn(p, t, success) ==
    /\ tk_thread' = [tk_thread EXCEPT ![p] = TkIdle]
    /\ tk_ret' = TkReturned(t.op, t.email, t.ticket_id, t.category, success)

\* ticket_agent.create_ticket up to its duplicate check.
TicketCreate(p, email, category) ==
    /\ tk_thread[p].pc = "idle"
    /\ Len(tickets) + Cardinality({q \in Workers : tk_thread[q].op = "create_ticket"})
         < MaxTickets
    /\ LET t == [TkIdle EXCEPT !.op = "create_ticket", !.email = email,
                               !.category = category] IN
       IF check_duplicate_ticket(tickets, email, category) # 0
       THEN TkReturn(p, t, FALSE)
       ELSE TkGoto(p, [t EXCEPT !.pc = "db.create_ticket"])
    /\ UNCHANGED tickets

\* TicketDatabase.create_ticket: its own duplicate check.
TicketDbCheck(p) ==
    /\ tk_thread[p].pc = "db.create_ticket"
    /\ LET t == tk_thread[p] IN
       IF check_duplicate_ticket(tickets, t.email, t.category) # 0
       THEN TkReturn(p, t, FALSE)
       ELSE TkGoto(p, [t EXCEPT !.pc = "generate_ticket_id"])
    /\ UNCHANGED tickets

TicketGenerateId(p) ==
    /\ tk_thread[p].pc = "generate_ticket_id"
    /\ TkGoto(p, [tk_thread[p] EXCEPT !.pc = "insert",
                                      !.ticket_id = generate_ticket_id(tickets)])
    /\ UNCHANGED tickets

\* INSERT INTO tickets: ticket_id is UNIQUE, and a violation is answered with
\* (False, "Database error: ...").
TicketInsert(p) ==
    /\ tk_thread[p].pc = "insert"
    /\ LET t == tk_thread[p] IN
       IF \E i \in 1..Len(tickets) : tickets[i].ticket_id = t.ticket_id
       THEN UNCHANGED tickets /\ TkReturn(p, t, FALSE)
       ELSE /\ tickets' = Append(tickets, [ticket_id |-> t.ticket_id,
                                           student_email |-> t.email,
                                           category |-> t.category, status |-> "Open"])
            /\ TkReturn(p, t, TRUE)

\* close_ticket -> update_ticket_status(ticket_id, 'Closed', student_email),
\* up to its SELECT: no such ticket of the student, or one already closed,
\* is answered with (False, ...).
TicketClose(p, email, ticket_id) ==
    /\ tk_thread[p].pc = "idle"
    /\ LET t == [TkIdle EXCEPT !.op = "close_ticket", !.email = email,
                               !.ticket_id = ticket_id]
           where(r) == where_ticket_and_owner(r, ticket_id, email)
       IN IF Rows(tickets, where) = {} THEN TkReturn(p, t, FALSE)
          ELSE IF \E i \in Rows(tickets, where) : tickets[i].status = "Closed"
          THEN TkReturn(p, t, FALSE)
          ELSE TkGoto(p, [t EXCEPT !.pc = "update"])
    /\ UNCHANGED tickets

\* The UPDATE of update_ticket_status, and (True, ...).
TicketUpdate(p) ==
    /\ tk_thread[p].pc = "update"
    /\ LET t == tk_thread[p]
           where(r) == where_ticket_and_owner(r, t.ticket_id, t.email)
       IN /\ tickets' = closed(tickets, Rows(tickets, where))
          /\ TkReturn(p, t, TRUE)

\* close_all_tickets up to its SELECT COUNT(*): (True, 0) when the student
\* has no open ticket.
TicketCloseAll(p, email) ==
    /\ tk_thread[p].pc = "idle"
    /\ LET t == [TkIdle EXCEPT !.op = "close_all_tickets", !.email = email]
           where(r) == where_owner_and_open(r, email)
       IN IF Rows(tickets, where) = {} THEN TkReturn(p, t, TRUE)
          ELSE TkGoto(p, [t EXCEPT !.pc = "update_all"])
    /\ UNCHANGED tickets

\* The UPDATE of close_all_tickets, and (True, count).
TicketUpdateAll(p) ==
    /\ tk_thread[p].pc = "update_all"
    /\ LET t == tk_thread[p]
           where(r) == where_owner_and_open(r, t.email)
       IN /\ tickets' = closed(tickets, Rows(tickets, where))
          /\ TkReturn(p, t, TRUE)

\* ------------------------------------------------------------ specification
\* The usage table outlives the process: a run starts from rows written by
\* earlier successes, empty or at the daily maximum.
InitUsed(kind) == {0, MaxAllowed(kind)}

InitAt(chat_memory_backend, e0, t0) ==
    /\ today = 1
    /\ daily_usage = [u \in Users |-> [d \in Dates |->
            IF d = 1 THEN [k \in Kinds |-> IF k = "email" THEN e0 ELSE t0]
            ELSE [k \in Kinds |-> 0]]]
    /\ succ = daily_usage
    /\ executed_actions = {}
    /\ thread = [p \in Workers |-> Idle]
    /\ started = 0
    /\ last = [via |-> "none", user |-> "", session |-> "", data |-> UnknownPayload,
               calls |-> 0, faults |-> {}, answer |-> "none"]
    /\ effects = [h \in Hashes |-> 0]
    /\ backend = chat_memory_backend
    /\ history = <<>>
    /\ shown = NoDraft
    /\ turn = NoTurn
    /\ paused_flows = [s \in Sessions |-> [f \in FlowNames |-> NoBlob]]
    /\ session_activity = [s \in Sessions |-> NoActivity]
    /\ clock = 0
    /\ caller = [step |-> "awaiting_purpose"]
    /\ given = [s \in Sessions |-> [f \in FlowNames |-> NoGiven]]
    /\ pause_ret = [op |-> "none", session |-> "", flow |-> "", state |-> Nothing,
                    has |-> FALSE]
    /\ chat_messages = <<>>
    /\ mem_ret = Called("none", "", "", "", "", 0, <<>>, 0)
    /\ dedup_cache = NoEntries
    /\ dedup_lock = Free
    /\ dedup_thread = [p \in Workers |-> DedupIdle]
    /\ dedup_now = 0
    /\ dedup_given = [u \in Users |-> NotCached]
    /\ db_writer = NoWriter
    /\ incr_thread = [p \in Workers |-> IncrIdle]
    /\ incr_ok = [u \in Users |-> [k \in Kinds |-> 0]]
    /\ agent_ret = [op |-> "none", outcome |-> Outcome(FALSE, Returns(PyNone)),
                    result |-> Returns(PyNone)]
    /\ classified = [op |-> "none", output |-> LlmRaises, result |-> NoIntentResult]
    /\ tickets = <<>>
    /\ tk_thread = [p \in Workers |-> TkIdle]
    /\ tk_ret = TkReturned("none", "", 0, "", FALSE)

InitWith(chat_memory_backend) ==
    \E e0 \in InitUsed("email"), t0 \in InitUsed("ticket") :
        InitAt(chat_memory_backend, e0, t0)

\* The process runs with the default chat-memory backend.
Init == InitWith("chromadb")

\* Confirmed emails (and a payload with no known action) through the executor.
NextEmail ==
    \/ \E p \in Workers, r \in Requests \ TicketRequests :
         ExecStart(p, r.user, "s1", r.data)
    \/ \E p \in Workers : ExecQuota(p)
    \/ \E p \in Workers : ExecCall(p)
    \/ \E p \in Workers : ExecIncr(p)
    \/ Tick

SpecEmail == Init /\ [][NextEmail]_vars

\* Tickets through the executor and through the REST endpoint.
NextTicket ==
    \/ \E p \in Workers, r \in TicketRequests : ExecStart(p, r.user, "s1", r.data)
    \/ \E p \in Workers : ExecQuota(p)
    \/ \E p \in Workers : ExecCall(p)
    \/ \E p \in Workers : ExecIncr(p)
    \/ \E p \in Workers, r \in TicketRequests : ApiTicketStart(p, r.user, r.data)
    \/ \E p \in Workers : ApiTicketCall(p)
    \/ \E p \in Workers : ApiTicketIncr(p)
    \/ Tick

SpecTicket == Init /\ [][NextTicket]_vars

\* Confirmed emails and non-sensitive tickets through the executor for
\* students whose rows of the day stand one below the daily maximum.
InitNearMax == InitAt("chromadb", EMAIL_DAILY_MAX - 1, TICKET_DAILY_MAX - 1)

QuotaRequests == { r \in Requests : ~is_sensitive(r.data) }

NextQuota ==
    \/ \E p \in Workers, r \in QuotaRequests : ExecStart(p, r.user, "s1", r.data)
    \/ \E p \in Workers : ExecQuota(p)
    \/ \E p \in Workers : ExecCall(p)
    \/ \E p \in Workers : ExecIncr(p)
    \/ Tick

SpecQuota == InitNearMax /\ [][NextQuota]_vars

\* Confirmed emails through the executor around civil midnight, with the date
\* of each quota check observed.
NextMidnight ==
    \/ \E p \in Workers, r \in Requests \ TicketRequests :
         ExecStart(p, r.user, "s1", r.data)
    \/ \E p \in Workers : ExecQuotaAt(p, TRUE)
    \/ \E p \in Workers : ExecCall(p)
    \/ \E p \in Workers : ExecIncr(p)
    \/ Tick

SpecMidnight == InitAt("chromadb", 0, 0) /\ [][NextMidnight]_vars

\* The chat session of one student under any chat-memory backend: turns of
\* the conversation, and confirmations posted for the session.
InitChat ==
    /\ \E b \in Backends : InitWith(b)
    /\ \A k \in Kinds : daily_usage["u1"][1][k] = 0

NextChat ==
    \/ \E m \in Messages, llm \in Classifications :
         \E subj \in IF about[m].purpose # "" THEN Subjects ELSE {Text("Seminar", "")},
            ok \in IF turn.final.contact_faculty_step = "preview" THEN BOOLEAN ELSE {TRUE} :
           ProcessMessage(m, llm, subj, ok)
    \/ \E d \in EmailPayloads : started < MaxConfirms /\ ExecStart("w1", "u1", "s1", d)
    \/ ExecQuota("w1")
    \/ ExecCall("w1")
    \/ ExecIncr("w1")

SpecChat == InitChat /\ [][NextChat]_vars

\* The flow-pause store alone: any order of its operations on the flows of a
\* session, while time passes.
chat_vars == <<today, daily_usage, executed_actions, thread, started, last, effects, succ,
               backend, history, shown, turn, memory_vars, dedup_vars, incr_vars, protocol_vars, ticket_vars>>

NextPause ==
    \/ \E s \in Sessions, f \in FlowNames : PauseFlow(s, f) /\ UNCHANGED chat_vars
    \/ \E s \in Sessions, f \in FlowNames : ResumeFlow(s, f) /\ UNCHANGED chat_vars
    \/ \E s \in Sessions, f \in FlowNames : HasPausedFlow(s, f) /\ UNCHANGED chat_vars
    \/ \E s \in Sessions, f \in FlowNames : ClearFlow(s, f) /\ UNCHANGED chat_vars
    \/ \E s \in Sessions, u \in BOOLEAN : CheckSessionTimeout(s, u) /\ UNCHANGED chat_vars
    \/ CallerMutates /\ UNCHANGED chat_vars
    \/ Advance /\ UNCHANGED chat_vars

memory_frame == <<today, daily_usage, executed_actions, thread, started, last, effects, succ,
                 backend, history, shown, turn, dedup_vars, incr_vars, protocol_vars, ticket_vars>>

\* The chat memory alone, under any backend: messages of two students in two
\* sessions are saved and session histories are read.
NextMemory ==
    \/ \E u \in Users, c \in ChatSessions, r \in Roles, t \in Contents :
         SaveMessage(u, c, r, t) /\ UNCHANGED <<memory_frame, pause_vars>>
    \/ \E u \in Users \cup {None}, c \in ChatSessions, n \in 1..MaxLimit :
         GetSessionHistory(u, c, n) /\ UNCHANGED <<memory_frame, pause_vars>>
    \/ \E u \in Users, c \in ChatSessions :
         GetChatSession(u, c) /\ UNCHANGED <<memory_frame, pause_vars>>

SpecMemory == InitChat /\ [][NextMemory]_vars

\* No quota is used before the store is exercised.
InitPause ==
    /\ Init
    /\ \A u \in Users, k \in Kinds : daily_usage[u][1][k] = 0

SpecPause == InitPause /\ [][NextPause]_vars

\* The deduplication cache alone: two threads call check_duplicate,
\* cache_response and clear for one user's request while time passes.
dedup_frame == <<today, daily_usage, executed_actions, thread, started, last, effects, succ,
                backend, history, shown, turn, pause_vars, memory_vars, incr_vars, protocol_vars, ticket_vars>>

NextDedup ==
    \/ \E p \in Workers, m \in DedupMessages :
         CheckDuplicate(p, "u1", m) /\ UNCHANGED dedup_frame
    \/ \E p \in Workers, r \in Responses :
         CacheResponse(p, "u1", r) /\ UNCHANGED dedup_frame
    \/ \E p \in Workers : DedupClear(p) /\ UNCHANGED dedup_frame
    \/ \E p \in Workers : Acquire(p) /\ UNCHANGED dedup_frame
    \/ \E p \in Workers : CleanScan(p) /\ UNCHANGED dedup_frame
    \/ \E p \in Workers : CleanDelete(p) /\ UNCHANGED dedup_frame
    \/ \E p \in Workers : Lookup(p) /\ UNCHANGED dedup_frame
    \/ \E p \in Workers : Store(p) /\ UNCHANGED dedup_frame
    \/ \E p \in Workers : ClearAll(p) /\ UNCHANGED dedup_frame
    \/ Tock /\ UNCHANGED dedup_frame

SpecDedup == InitPause /\ [][NextDedup]_vars

\* increment_usage alone: the threads of the server increment usage rows of
\* one civil date at the same time.
incr_frame == <<today, executed_actions, thread, started, last, effects, succ,
               backend, history, shown, turn, pause_vars, memory_vars, dedup_vars,
               protocol_vars, ticket_vars>>

NextIncrement ==
    \/ \E p \in Workers, u \in Users, k \in Kinds : IncrStart(p, u, k) /\ UNCHANGED incr_frame
    \/ \E p \in Workers : IncrBegin(p) /\ UNCHANGED incr_frame
    \/ \E p \in Workers : IncrUpsert(p) /\ UNCHANGED incr_frame
    \/ \E p \in Workers : IncrCommit(p) /\ UNCHANGED incr_frame

SpecIncrement == Init /\ [][NextIncrement]_vars


\* The response protocol alone: safe_agent_call around an agent that raises
\* or returns any value.
protocol_frame == <<today, daily_usage, executed_actions, thread, started, last, effects, succ,
                   backend, history, shown, turn, pause_vars, memory_vars, dedup_vars,
                   incr_vars, ticket_vars>>

NextProtocol ==
    \E outcome \in AgentOutcomes : SafeAgentCall(outcome) /\ UNCHANGED protocol_frame

SpecProtocol == InitPause /\ [][NextProtocol]_vars

\* The classifier alone, under any output of the LLM chain.
NextClassify ==
    \E out \in LlmOutputs : LlmClassifyIntent(out) /\ UNCHANGED protocol_frame

SpecClassify == InitPause /\ [][NextClassify]_vars

\* The ticket database alone: the threads of the server create and close
\* tickets of two students at the same time.
ticket_frame == <<today, daily_usage, executed_actions, thread, started, last, effects, succ,
                 backend, history, shown, turn, pause_vars, memory_vars, dedup_vars,
                 incr_vars, protocol_vars>>

NextTickets ==
    \/ \E p \in Workers, u \in Users, c \in TicketCategories :
         TicketCreate(p, u, c) /\ UNCHANGED ticket_frame
    \/ \E p \in Workers : TicketDbCheck(p) /\ UNCHANGED ticket_frame
    \/ \E p \in Workers : TicketGenerateId(p) /\ UNCHANGED ticket_frame
    \/ \E p \in Workers : TicketInsert(p) /\ UNCHANGED ticket_frame
    \/ \E p \in Workers, u \in Users, i \in 1..MaxTickets :
         TicketClose(p, u, i) /\ UNCHANGED ticket_frame
    \/ \E p \in Workers : TicketUpdate(p) /\ UNCHANGED ticket_frame
    \/ \E p \in Workers, u \in Users : TicketCloseAll(p, u) /\ UNCHANGED ticket_frame
    \/ \E p \in Workers : TicketUpdateAll(p) /\ UNCHANGED ticket_frame

SpecTickets == InitPause /\ [][NextTickets]_vars

\* The first turns of a session under every answer the classifier can give:
\* any of the intents whose handler is modelled, or unknown, with a confidence
\* around the thresholds, for one intent or for several.
Intents == {"college_rag_query", "email_action", "general_chat", "unknown"}
Confidences == {45, 69, 70, 90}
IntentResults == [intent : Intents, confidence : Confidences, is_multi_intent : BOOLEAN]

NextGate ==
    \E m \in AllMessages, llm \in IntentResults :
      \E subj \in IF about[m].purpose # "" THEN Subjects ELSE {Text("Seminar", "")} :
        turn.n < MaxGateTurns /\ ProcessMessage(m, llm, subj, TRUE)

SpecGate == InitChat /\ [][NextGate]_vars

\* A session in which an email flow is started and the student then types
\* cancel words and other replies.
NextCancel ==
    \E m \in CancelMessages, llm \in Classifications :
        ProcessMessage(m, llm, Text("Seminar", ""), TRUE)

SpecCancel == InitChat /\ [][NextCancel]_vars

\* A session in which the student starts an email, and then starts another
\* one, confirms, or asks something else.
EntryMessages ==
    {"Send an email to friend@gmail.com about the seminar tomorrow", "send an email",
     "send", "what is the hostel fee"}

NextEntry ==
    \E m \in EntryMessages, llm \in Classifications :
        ProcessMessage(m, llm, Text("Seminar", ""), TRUE)

SpecEntry == InitChat /\ [][NextEntry]_vars

\* A session in which time passes between the turns: every turn first calls
\* update_session_activity and check_session_timeout of the flow-pause
\* manager, then loads the state of the session and runs.
idle_frame == <<today, daily_usage, executed_actions, thread, started, last, effects, succ,
               backend, memory_vars, dedup_vars, incr_vars, protocol_vars, ticket_vars>>

TimedTurn(user_message, llm) ==
    /\ turn.n < MaxTurns
    /\ CheckSessionTimeout("s1", TRUE)
    /\ process_message(user_message, llm, Text("Seminar", ""), TRUE)
    /\ UNCHANGED idle_frame

NextIdle ==
    \/ \E m \in EntryMessages, llm \in Classifications : TimedTurn(m, llm)
    \/ Advance /\ UNCHANGED chat_vars

SpecIdle == InitChat /\ [][NextIdle]_vars

\* A session in which a sensitive complaint is made and the question of the
\* flow is answered, validly or not.
FollowupClassifications ==
    { [intent |-> "sensitive_complaint", confidence |-> 90, is_multi_intent |-> FALSE],
      [intent |-> "general_chat", confidence |-> 90, is_multi_intent |-> FALSE] }

NextFollowup ==
    \E m \in FollowupMessages, llm \in FollowupClassifications :
        /\ turn.n < MaxReplies
        /\ process_message(m, llm, Text("Seminar", ""), TRUE)
        /\ UNCHANGED <<idle_frame, pause_vars>>

SpecFollowup == InitChat /\ [][NextFollowup]_vars

\* ================================================================== claims
IsEmail(t) == t.via = "executor" /\ KindOf(t.data) = "email"

\* Only the counter of (user, today, kind) moved, by one.
OnlyRaised(user, kind) ==
    daily_usage' = [daily_usage EXCEPT ![user][today][kind] = daily_usage[user][today][kind] + 1]

\* C1: executor calls that carry the same action hash produce at most one
\* external side effect between them, however the calls interleave.
C1_AtMostOneEffectPerHash == \A h \in Hashes : effects[h] <= 1

\* C2: the stored counter of every (user, civil date, action type) never
\* exceeds the number of side effects of that type the collaborator reported
\* as successful for that user on that date.
C2_CounterWithinSuccesses ==
    \A u \in Users, d \in Dates, k \in Kinds : daily_usage[u][d][k] <= succ[u][d][k]

\* The draft a payload carries.
DraftOf(data) == [to |-> data.to, subject |-> data.subject, body |-> data.body]

\* The executor thread p calls the collaborator in this step.
Calls(p) == thread[p].pc = "call" /\ thread'[p].calls = thread[p].calls + 1

\* The chat turn taken in this step calls the email collaborator.
TurnSends == turn'.n = turn.n + 1 /\ turn'.sent # NoDraft

C5_CounterOneHigherThanBefore ==
    [][\A p \in Workers :
         (IsEmail(thread[p]) /\ thread[p].pc = "incr" /\ thread'[p].pc = "idle")
         => /\ thread[p].calls = 1
            /\ daily_usage'[thread[p].user][today]["email"] = thread[p].before[today] + 1]_vars

\* C5 (amended): when a confirmed email was sent successfully, the
\* collaborator was called exactly once for the request and the success
\* envelope is returned; the single increment_usage call raises by exactly one
\* the user's email counter of the civil date current at the increment and
\* changes no other counter, unless it raises an exception, which leaves every
\* counter unchanged.
C5_OneCallOneIncrementUnlessWriteFails ==
    [][\A p \in Workers :
         (IsEmail(thread[p]) /\ thread[p].pc = "incr" /\ thread'[p].pc = "idle")
         => /\ thread[p].calls = 1
            /\ last'.answer = "success"
            /\ IF "write" \in last'.faults
               THEN daily_usage' = daily_usage
               ELSE OnlyRaised(thread[p].user, "email")]_vars

C5_Witness ==
    /\ last.via = "executor" /\ KindOf(last.data) = "email"
    /\ last.answer = "success" /\ last.calls = 1 /\ last.faults = {}
    /\ daily_usage[last.user][today]["email"] = 1

\* C6 (as claimed): a confirmed send by a user whose email counter of the
\* current civil date equals the daily maximum is refused with the daily-limit
\* message, the collaborator is not called and the counter is unchanged.
C6_AtMaxAlwaysRefused ==
    [][\A p \in Workers :
         (IsEmail(thread[p]) /\ thread[p].pc = "quota" /\ thread'[p].pc # "quota"
            /\ daily_usage[thread[p].user][today]["email"] = EMAIL_DAILY_MAX)
         => /\ thread'[p].pc = "idle"
            /\ last'.answer = "limit_reached" /\ last'.calls = 0
            /\ daily_usage' = daily_usage]_vars

\* C6 (amended): when the quota check of a confirmed send reads the counter
\* successfully and the counter of the current civil date has reached the
\* daily maximum, the send is refused with the daily-limit message, the
\* collaborator is not called and the counter is unchanged; when the read
\* fails the check fails open and the send goes on to the collaborator.
C6_AtMaxRefusedUnlessReadFails ==
    [][\A p \in Workers :
         (IsEmail(thread[p]) /\ thread[p].pc = "quota" /\ thread'[p].pc # "quota"
            /\ daily_usage[thread[p].user][today]["email"] >= EMAIL_DAILY_MAX)
         => /\ daily_usage' = daily_usage
            /\ IF "read" \in thread'[p].faults
               THEN thread'[p].pc = "call"
               ELSE /\ thread'[p].pc = "idle"
                    /\ last'.answer = "limit_reached" /\ last'.calls = 0]_vars

C6_Witness ==
    /\ last.via = "executor" /\ KindOf(last.data) = "email"
    /\ last.answer = "limit_reached" /\ last.calls = 0
    /\ daily_usage[last.user][today]["email"] = EMAIL_DAILY_MAX

\* C9: across two consecutive turns of one uninterrupted flow (the earlier
\* turn was answered and ended in a flow, no action was executed, the later
\* message is no cancel keyword and the later turn starts in the same flow),
\* every slot that was filled when the earlier turn ended is still filled,
\* with the step and the draft of the flow, in the state the later turn's
\* graph receives.
C9_FlowStateReachesNextTurn ==
    (/\ turn.n >= 2 /\ turn.ended_type \notin {"none", "error"}
     /\ turn.ended.active_flow # None
     /\ turn.received.active_flow = turn.ended.active_flow
     /\ ~about[turn.user_message].is_cancel
     /\ \A h \in Hashes : effects[h] = 0)
    => /\ DOMAIN turn.ended.extracted_slots \subseteq DOMAIN turn.received.extracted_slots
       /\ turn.received.contact_faculty_step = turn.ended.contact_faculty_step
       /\ turn.received.email_draft = turn.ended.email_draft

\* C10: after a turn whose message is a cancel keyword and which found an
\* active flow, the state loaded at the start of every later turn of the
\* session has no active flow, until a turn starts a new flow.
C10_NoActiveFlowAfterCancel ==
    turn.after_cancel => turn.loaded.active_flow = None

\* C7: a confirmed ticket whose description or category contains a sensitive
\* keyword is never stopped by the quota gate of the executor.
C7_SensitiveSkipsQuotaGate ==
    ~(last.via = "executor" /\ last.data.action = "ticket_preview"
        /\ is_sensitive(last.data) /\ last.answer = "limit_reached")

\* C8 (as claimed): creating a ticket through the sensitive path leaves the
\* user's daily ticket counter unchanged.
C8_SensitiveLeavesCounter ==
    [][\A p \in Workers :
         (thread[p].pc = "api_incr" /\ is_sensitive(thread[p].data) /\ thread'[p].pc = "idle")
         => daily_usage' = daily_usage]_vars

\* C8 (amended): a ticket created through the sensitive path is counted like
\* any other: the endpoint raises the user's ticket counter of the current
\* civil date by exactly one and answers success, unless increment_usage
\* raises, which leaves the counter unchanged and is answered as an error.
C8_SensitiveIsCounted ==
    [][\A p \in Workers :
         (thread[p].pc = "api_incr" /\ is_sensitive(thread[p].data) /\ thread'[p].pc = "idle")
         => IF "write" \in last'.faults
            THEN daily_usage' = daily_usage /\ last'.answer = "error"
            ELSE OnlyRaised(thread[p].user, "ticket") /\ last'.answer = "success"]_vars

C8_Witness ==
    /\ last.via = "api" /\ is_sensitive(last.data) /\ last.answer = "success"
    /\ daily_usage[last.user][today]["ticket"] = TICKET_DAILY_MAX + 1

\* C11: a turn whose trimmed, lower-cased message is a cancel keyword and which
\* finds a flow answers with the cancellation message in an envelope that is
\* not a clarification request, sends no email in that turn and leaves the
\* counters and the executor's effects as they were.
CancelTurn ==
    /\ turn.n >= 1
    /\ about[turn.user_message].msg_lower \in CANCEL_KEYWORDS
    /\ turn.received.active_flow # None
    /\ turn.type # "error"

C11_CancelReturnsCancellation ==
    CancelTurn => /\ turn.type = "information"
                  /\ turn.response = "Action cancelled"
                  /\ turn.sent = NoDraft

\* C12: when the graph receives an active email flow and the message is not a
\* cancel keyword, the turn ends in the handler of that flow, whatever the
\* classifier answered.
C12_ActiveFlowDispatchedToHandler ==
    (/\ turn.n >= 1
     /\ turn.received.active_flow \in {"email", "contact_faculty"}
     /\ ~about[turn.user_message].is_cancel)
    => turn.node = "handle_faculty_flow"

\* C13 (as claimed): with no active flow the gate asks for clarification
\* exactly when the confidence is below the threshold of the intent (FAQ 0.45,
\* EMAIL 0.65) and the intent is not EMAIL with an extracted entity.
GateTurn == turn.n >= 1 /\ turn.received.active_flow = None

PreviewThenFaq ==
    /\ turn.n >= 2
    /\ turn.ended.active_flow = "email"
    /\ turn.ended.contact_faculty_step = "preview"
    /\ turn.ended_type = "email_preview"
    /\ about[turn.user_message].is_faq_query
    /\ ~about[turn.user_message].is_email_related
    /\ turn.llm.intent = "college_rag_query"
    /\ turn.llm.confidence >= CONFIDENCE_THRESHOLD
    /\ ~turn.llm.is_multi_intent

ResumeStep(s, f) ==
    /\ pause_ret'.op = "resume" /\ pause_ret'.session = s /\ pause_ret'.flow = f
    /\ clock' = clock /\ caller' = caller

HasStep(s, f) ==
    /\ pause_ret'.op = "has" /\ pause_ret'.session = s /\ pause_ret'.flow = f
    /\ clock' = clock /\ caller' = caller

\* C15: a flow paused at time t never resumes at a time >= t + TTL: every
\* such resume returns nothing and leaves no blob under the key, whatever
\* was done with the session in between.
C15_ExpiredFlowNeverResumes ==
    [][\A s \in Sessions, f \in FlowNames :
         (/\ ResumeStep(s, f)
          /\ given[s][f].status # "none"
          /\ clock >= given[s][f].at + timeout_seconds)
         => (pause_ret'.state = Nothing /\ paused_flows'[s][f] = NoBlob)]_vars

\* A resume exactly at t + TTL of a flow that was neither resumed nor cleared
\* returned nothing.
C15_Witness ==
    \E s \in Sessions, f \in FlowNames :
        /\ pause_ret = Returned("resume", s, f, Nothing, FALSE)
        /\ given[s][f].status = "paused"
        /\ clock = given[s][f].at + timeout_seconds
        /\ paused_flows[s][f] = NoBlob

\* C16: the first resume after the latest pause of a key, within TTL of that
\* pause and with no clear in between, returns exactly the state that pause
\* was given, whatever was paused under the key before.
C16_ResumeReturnsLatestPause ==
    [][\A s \in Sessions, f \in FlowNames :
         (/\ ResumeStep(s, f)
          /\ given[s][f].status = "paused"
          /\ clock < given[s][f].at + timeout_seconds)
         => pause_ret'.state = given[s][f].state]_vars

\* A resume returned the state of the latest pause while the caller's dict
\* has other items by now.
C16_Witness ==
    \E s \in Sessions, f \in FlowNames :
        /\ pause_ret.op = "resume" /\ pause_ret.session = s /\ pause_ret.flow = f
        /\ given[s][f].status = "resumed"
        /\ pause_ret.state = given[s][f].state
        /\ pause_ret.state # caller
        /\ clock > given[s][f].at

\* C17: after a successful resume of a key and until its next pause, no blob
\* is kept under the key, has_paused_flow returns false and resume_flow
\* returns nothing.
C17_ResumedFlowIsDeleted ==
    [][\A s \in Sessions, f \in FlowNames :
         given[s][f].status = "resumed"
         => /\ paused_flows[s][f] = NoBlob
            /\ HasStep(s, f) => pause_ret'.has = FALSE
            /\ ResumeStep(s, f) => pause_ret'.state = Nothing]_vars

\* A second resume within TTL of the pause returned nothing.
C17_Witness ==
    \E s \in Sessions, f \in FlowNames :
        /\ pause_ret = Returned("resume", s, f, Nothing, FALSE)
        /\ given[s][f].status = "resumed"
        /\ clock < given[s][f].at + timeout_seconds

\* ------------------------------------------------------------ chat memory
\* The messages user_id wrote in session_id, oldest first.
written_by(user_id, session_id) ==
    SelectSeq(chat_messages, LAMBDA m : m.user_id = user_id /\ m.session_id = session_id)

timestamps(messages) == [i \in 1..Len(messages) |-> messages[i].timestamp]

C19_HistoryIsNewestInOrder ==
    (mem_ret.op = "get_session_history" /\ mem_ret.user_id \in Users)
    => timestamps(mem_ret.messages) =
          timestamps(last_n(written_by(mem_ret.user_id, mem_ret.session_id), mem_ret.limit))

\* The contents that are None, empty or whitespace-only, and the system roles.
BlankContents == { c \in Contents : c = None \/ strip(c) = "" }
SystemRoles == { r \in Roles : lower(r) = "system" }

\* C20: the chat memory holds no message with blank content and no system
\* message, and a save_message call with such a message leaves it as it was.
C20_NoBlankOrSystemMessageSaved ==
    [][/\ \A i \in 1..Len(chat_messages') :
            /\ chat_messages'[i].content \notin BlankContents
            /\ chat_messages'[i].role \notin SystemRoles
       /\ (/\ mem_ret'.op = "save_message"
           /\ (mem_ret'.content \in BlankContents \/ mem_ret'.role \in SystemRoles))
          => chat_messages' = chat_messages]_vars

\* A whitespace-only message was given to save_message after a message had
\* been saved.
C20_Witness ==
    /\ mem_ret.op = "save_message"
    /\ mem_ret.content = "  "
    /\ mem_ret.role = "user"
    /\ chat_messages # <<>>

\* ------------------------------------------------------- deduplication cache
\* C21: a check_duplicate of the request that starts after a cache_response
\* of response r returned, ends less than the TTL after that cache_response
\* started, with no clear and no other cache_response in between, and whose
\* message has no bypass keyword, returns (true, r).
C21_CachedResponseIsReturned ==
    [][\A p \in Workers :
         (/\ dedup_thread[p].pc = "lookup"
          /\ dedup_thread'[p].pc = "idle"
          /\ dedup_thread[p].saw.status = "cached"
          /\ dedup_given[dedup_thread[p].user_id] = dedup_thread[p].saw
          /\ dedup_now < dedup_thread[p].saw.at + ttl_seconds)
         => /\ dedup_thread'[p].ret.dup
            /\ dedup_thread'[p].ret.response = dedup_thread[p].saw.response]_vars

\* C22: a thread at a program point that reads or changes the cache mapping
\* holds the cache mutex, so no two threads are at such points together.
C22_CacheAccessHoldsMutex ==
    \A p \in Workers : dedup_thread[p].pc \in CachePcs => dedup_lock = p

\* A thread is in the middle of deleting expired entries while the other
\* thread waits for the mutex with a call of its own.
C22_Witness ==
    \E p \in Workers, q \in Workers :
        /\ dedup_thread[p].pc = "delete"
        /\ dedup_thread[p].expired_keys # {}
        /\ dedup_thread[q].pc \in {"is_duplicate", "cache_response", "clear"}
        /\ dedup_lock = p

\* The retry keywords in a message, whatever its case.
RetryKeywordsIn(message) == { kw \in bypass_keywords : Find(lower(message), kw) # {} }
RetryMessages == { m \in DedupMessages : RetryKeywordsIn(m) # {} }

\* C23: a check_duplicate whose message contains a retry keyword returns
\* (false, nothing) at once and leaves the cache as it is.
C23_RetryBypassesTheCache ==
    [][\A p \in Workers :
         (/\ dedup_thread[p].pc = "idle"
          /\ dedup_thread'[p] # dedup_thread[p]
          /\ dedup_thread'[p].op = "check_duplicate"
          /\ dedup_thread'[p].message \in RetryMessages)
         => /\ dedup_thread'[p].pc = "idle"
            /\ dedup_thread'[p].ret = [op |-> "check_duplicate", dup |-> FALSE,
                                       response |-> None]
            /\ dedup_cache' = dedup_cache]_vars

\* A retry message was answered (false, nothing) while the request's response
\* is in the cache and not expired.
C23_Witness ==
    \E p \in Workers :
        /\ dedup_thread[p].pc = "idle"
        /\ dedup_thread[p].op = "check_duplicate"
        /\ dedup_thread[p].message = "Please RETRY"
        /\ ~dedup_thread[p].ret.dup
        /\ \E h \in DOMAIN dedup_cache :
              /\ h = compute_hash("u1", DedupIntent, DedupEntities, dedup_now)
              /\ dedup_now < dedup_cache[h].expiry

\* ------------------------------------------------------------ usage counter
\* C24: concurrent increments of a usage row lose no count: whenever no
\* increment_usage call for the row is under way, its counter is higher than
\* at the start by the number of calls that returned without error.
C24_NoIncrementIsLost ==
    \A u \in Users, k \in Kinds :
        (\A p \in Workers : incr_thread[p].pc = "idle" \/ incr_thread[p].user # u
                                \/ incr_thread[p].kind # k)
        => daily_usage[u][1][k] = succ[u][1][k] + incr_ok[u][k]

\* A call that had to wait for the write lock of another call for the same
\* row is about to commit the second increment of the row.
C24_Witness ==
    \E p \in Workers, q \in Workers :
        /\ incr_thread[p].pc = "idle" /\ incr_thread[q].pc = "commit"
        /\ incr_ok[incr_thread[q].user][incr_thread[q].kind] = 1
        /\ incr_thread[q].value = succ[incr_thread[q].user][1][incr_thread[q].kind] + 2

\* ------------------------------------------------- executor: failure handling
\* The request answered last, as a fingerprint.
LastHash == action_hash(last.user, last.data)

\* C25: when the read of the daily counter fails, the quota check allows the
\* action and the executor goes on to the collaborator call.
C25_FailedReadFailsOpen ==
    [][\A p \in Workers :
         (/\ thread[p].pc = "quota"
          /\ \/ "read" \in thread'[p].faults
             \/ thread'[p].pc = "idle" /\ last' # last /\ "read" \in last'.faults)
         => thread'[p].pc = "call"]_vars

\* A request of a user who stands at the daily maximum went through a failed
\* read to the collaborator, and the side effect was performed.
C25_Witness ==
    /\ last.via = "executor" /\ last.answer = "success"
    /\ "read" \in last.faults
    /\ effects[LastHash] >= 1
    /\ daily_usage[last.user][today][KindOf(last.data)] >= MaxAllowed(KindOf(last.data))

\* C26: when increment_usage fails after the side effect succeeded, the
\* executor answers with the success envelope, the side effect stays
\* performed, and the fingerprint stays recorded; a request with the same
\* fingerprint that starts afterwards is refused as already executed.
C26_FailedIncrementKeepsSuccess ==
    [][/\ \A p \in Workers :
            (thread[p].pc = "incr" /\ thread'[p].pc = "idle" /\ "write" \in last'.faults)
            => /\ last'.answer = "success"
               /\ effects' = effects
               /\ action_hash(last'.user, last'.data) \in executed_actions'
       /\ (last.via = "executor" /\ "write" \in last.faults)
            => /\ LastHash \in executed_actions'
               /\ ~\E p \in Workers :
                     /\ thread[p].pc = "idle" /\ thread'[p].pc = "quota"
                     /\ action_hash(thread'[p].user, thread'[p].data) = LastHash]_vars

\* The success envelope was returned for a performed side effect that the
\* usage counter does not show.
C26_Witness ==
    /\ last.via = "executor" /\ last.answer = "success"
    /\ "write" \in last.faults
    /\ effects[LastHash] = 1
    /\ LastHash \in executed_actions
    /\ daily_usage[last.user][today][KindOf(last.data)]
         < succ[last.user][today][KindOf(last.data)]

\* C27: after the executor reported success for a confirmed action, the next
\* turn of the session starts with no active flow.
C27_SuccessClearsActiveFlow ==
    [][(/\ last.via = "executor" /\ last.answer = "success"
        /\ history # <<>>
        /\ "action_executed" \in DOMAIN history[Len(history)]
        /\ turn'.n = turn.n + 1)
       => turn'.loaded.active_flow = None]_vars

\* C28: when the collaborator reports failure or raises, the executor answers
\* with a failure envelope and records neither the fingerprint nor a usage;
\* a request is refused as already executed only when its fingerprint is
\* recorded, so an identical later request is attempted again.
C28_FailureRecordsNothing ==
    [][/\ \A p \in Workers :
            (thread[p].pc = "call" /\ thread'[p].pc = "idle")
            => /\ last'.answer = "failed"
               /\ executed_actions' = executed_actions
               /\ daily_usage' = daily_usage
       /\ (last' # last /\ last'.answer = "already_executed")
            => action_hash(last'.user, last'.data) \in executed_actions]_vars

\* A request failed at the collaborator, its fingerprint is not recorded, and
\* an identical request has passed the double-execution guard.
C28_Witness ==
    /\ last.via = "executor" /\ last.answer = "failed"
    /\ LastHash \notin executed_actions
    /\ \E p \in Workers :
          /\ thread[p].pc = "call"
          /\ action_hash(thread[p].user, thread[p].data) = LastHash


\* The statuses and the kinds of items that the protocol documents as well formed.
DocumentedStatuses == VALID_STATUSES \cup {"needs_escalation"}

WellFormed(ret) ==
    /\ ret.type = "dict"
    /\ {"status", "message"} \subseteq DOMAIN ret.dict
    /\ ret.dict.status.type = "str" /\ ret.dict.status.value \in DocumentedStatuses
    /\ ret.dict.message.type = "str" /\ ret.dict.message.value # ""
    /\ "resolved_entities" \in DOMAIN ret.dict => ret.dict.resolved_entities.type = "dict"
    /\ "artifacts" \in DOMAIN ret.dict => ret.dict.artifacts.type = "dict"
    /\ "side_effects" \in DOMAIN ret.dict => ret.dict.side_effects.type = "list"

IsGenericError(result) ==
    /\ result.type = "dict"
    /\ result.dict.status = Str("error")
    /\ result.dict.message = Str("(x) " \o InternalError)

\* C29: a response an agent returns is accepted (returned as it is) by
\* safe_agent_call if and only if its status is one of success, error,
\* needs_input, needs_confirmation, needs_escalation and its message is a
\* non-empty string, with optional items of the stated kinds; every other
\* response is replaced with the generic error response.
C29_AcceptedIffWellFormed ==
    (agent_ret.op = "safe_agent_call" /\ ~agent_ret.outcome.raises) =>
        IF WellFormed(agent_ret.outcome.ret)
        THEN agent_ret.result = agent_ret.outcome.ret
        ELSE IsGenericError(agent_ret.result)


\* C30: every result of the classifier, for any output of the LLM (malformed
\* or failing output included), has an intent of the closed enumeration and a
\* confidence in the interval [0, 1] (0 to 100 hundredths).
C30_ResultIsClosedAndBounded ==
    classified.op = "_llm_classify_intent" =>
        /\ classified.result.intent \in IntentType
        /\ classified.result.confidence \in 0..100


\* C35: for every user and civil date, the emails sent and the tickets
\* created successfully through confirmed actions never exceed the daily
\* maximum of their kind (5 emails, 3 tickets), also when confirmed actions
\* with different fingerprints of one user are processed concurrently.
C35_SuccessesWithinDailyMax ==
    \A u \in Users, d \in Dates, k \in Kinds : succ[u][d][k] <= MaxAllowed(k)


\* C40: the increment that follows a successful side effect is charged to the
\* civil date of the quota check that admitted the side effect, also when
\* civil midnight falls between the check and the increment: the increment of
\* an action admitted against day d raises the counter of day d and of no
\* other day.
C40_IncrementChargedToCheckedDate ==
    [][\A p \in Workers :
         (thread[p].pc = "incr" /\ thread'[p].pc = "idle" /\ daily_usage' # daily_usage) =>
            daily_usage' = [daily_usage EXCEPT
                ![thread[p].user][thread[p].admitted][KindOf(thread[p].data)] = @ + 1]]_vars


\* C31: every envelope that process_message returns has a type among
\* information, clarification_request, email_preview, ticket_preview,
\* confirmation_request and an agent among orchestrator, faq_agent,
\* email_agent, ticket_agent.
C31_EnvelopeTypeAndAgentAreClosed ==
    (turn.n > 0 /\ turn.type # "error") =>
        /\ turn.type \in {"information", "clarification_request", "email_preview",
                          "ticket_preview", "confirmation_request"}
        /\ turn.agent \in {"orchestrator", "faq_agent", "email_agent", "ticket_agent"}


\* The cancel keywords as documented.
ExactCancelKeywords ==
    {"cancel", "never mind", "nevermind", "stop", "abort", "forget it", "quit"}

\* C33: cancel keywords are matched exactly and case-insensitively: a turn
\* that arrives with an active flow ends with the flow cancelled if and only
\* if the trimmed, lower-cased message equals one of cancel, never mind,
\* nevermind, stop, abort, forget it, quit; a message that merely contains one
\* of these words does not cancel the flow.
C33_CancelIsExactMatch ==
    (turn.n > 0 /\ turn.type # "error" /\ turn.received.active_flow # None) =>
        (turn.final.active_flow = None
            <=> about[turn.user_message].msg_lower \in ExactCancelKeywords)


\* The ticket a close_ticket call named, if the table holds it.
Named(ret) == { i \in 1..Len(tickets) : tickets[i].ticket_id = ret.ticket_id }

\* C34: a close command changes the status of a ticket only if the ticket is
\* owned by the requesting student: the status of a row changes only in the
\* step that completes a close_ticket or close_all_tickets call of its owner,
\* and a close_ticket call that reports success named a ticket of the
\* requester (a call for another student's ticket reports failure).
C34_CloseOnlyOwnTickets ==
    /\ [](tk_ret.op = "close_ticket" /\ tk_ret.success =>
            \E i \in Named(tk_ret) : tickets[i].student_email = tk_ret.email)
    /\ [][\A i \in 1..Len(tickets) :
            tickets'[i].status # tickets[i].status =>
              \E p \in Workers :
                /\ tk_thread[p].pc \in {"update", "update_all"}
                /\ tk_thread'[p].pc = "idle"
                /\ tk_thread[p].email = tickets[i].student_email]_vars

\* A student asked to close an open ticket of another student: the call
\* failed and the ticket is still open.
C34_Witness ==
    /\ tk_ret.op = "close_ticket"
    /\ ~tk_ret.success
    /\ \E i \in Named(tk_ret) :
         /\ tickets[i].student_email # tk_ret.email
         /\ tickets[i].status = "Open"

\* C38: at every moment a student has at most one ticket with status Open,
\* Assigned or In Progress in any given category, also when two creations for
\* the same student and category run concurrently.
C38_OneOpenTicketPerCategory ==
    \A u \in Users, c \in TicketCategories :
        Cardinality({ i \in 1..Len(tickets) :
            /\ tickets[i].student_email = u
            /\ tickets[i].category = c
            /\ tickets[i].status \in OpenStatuses }) <= 1

\* C32: a slot that is set when a turn of a flow ends holds the same value
\* when the next turn of the same flow ends (the messages of the model hold
\* no edit step). A turn belongs to the same flow when the flow the last
\* turn ended in is the one this turn was entered with and ended in.
SameFlowTurn ==
    /\ turn.n > 1
    /\ turn.type # "error" /\ turn.ended_type # "error"
    /\ turn.ended.active_flow # None
    /\ turn.received.active_flow = turn.ended.active_flow
    /\ turn.final.active_flow = turn.ended.active_flow

C32_SlotsKeptWithinFlow ==
    SameFlowTurn =>
        \A k \in DOMAIN turn.ended.extracted_slots :
            /\ k \in DOMAIN turn.final.extracted_slots
            /\ turn.final.extracted_slots[k] = turn.ended.extracted_slots[k]

\* The state the graph hands to the handler of the flow: the state the turn
\* received, after node 1.
Entered == _node_classify_intent(initial_state(turn.received), turn.user_message, turn.llm)

C37_IdleFlowIsExpired ==
    [][(/\ turn'.n = turn.n + 1
        /\ turn.final.active_flow # None
        /\ session_activity["s1"] # NoActivity
        /\ clock - session_activity["s1"] > inactivity_timeout_minutes)
       => /\ turn'.loaded.active_flow = None
          /\ turn'.received.active_flow = None]_vars

\* C39: after one or two consecutive invalid replies the flow the turn was
\* entered with is active with the question it asked; after the third the
\* flow is over: no active flow, no slots, and the answer is the start-over
\* message. (Turns that were answered with an error are left aside.)
C39_ThirdInvalidReplyEndsFlow ==
    /\ (turn.invalid \in {1, 2} /\ turn.type # "error") =>
          /\ turn.final.active_flow = turn.received.active_flow
          /\ turn.final.expected_response_type = turn.received.expected_response_type
    /\ (turn.invalid >= 3 /\ turn.type # "error") =>
          /\ turn.final.active_flow = None
          /\ turn.final.extracted_slots = EmptyDict
          /\ turn.response = "let's start over"

=============================================================================
